---- MODULE Spec2Model ----
(***************************************************************************)
(* A model of the IMAP/SMTP proxy (src/index.js and the later revisions of *)
(* the same file): the SMTP transporter cache used by the send action, and *)
(* the MIME decoding helpers decodePart, extractBodyFromSource and         *)
(* extractAttachmentsFromSource.                                           *)
(*                                                                         *)
(* Strings of the program are modelled as sequences of one-character       *)
(* strings, so that the regular expressions, split, indexOf, trim and the  *)
(* transfer decodings are computed character by character as the code      *)
(* computes them.                                                          *)
(***************************************************************************)
EXTENDS Integers, Sequences, FiniteSets, TLC

VARIABLES
    transporterCache,   \* Map cacheKey -> { transporter, created } (or NoEntry)
    transporters,       \* every transporter nodemailer.createTransport() returned
    now,                \* Date.now()
    ticks,              \* how many times the clock has advanced
    reqs,               \* the send requests: where each one is in its handler
    lastCall,           \* what the most recent getTransporter call saw and did
    msg,                \* the description of the message raw was rendered from
    raw,                \* the source handed to the MIME helpers
    phase,              \* which MIME helpers have run on raw
    bodyOut,            \* the result of extractBodyFromSource(raw)
    attsOut,            \* the result of extractAttachmentsFromSource(raw)
    argContent,         \* the content handed to decodePart
    argEncoding,        \* the encoding handed to decodePart
    retDecoded,         \* what decodePart(content, encoding) returned; NotRun before
    fetchReq,           \* the list or get request: its action and parameters
    inbox,              \* the messages of INBOX, in the order fetch yields them
    fetchPc,            \* where the request is in its handler
    msgs,               \* the list action's msgs array
    responses,          \* the HTTP responses sent for the request, in order
    imap,               \* the IMAP client: connection, lock, release and logout calls
    walkKind,           \* which helper walks raw: "body" or "attachments"
    stack,              \* the helper's calls in progress, the innermost last
    walkPc,             \* "idle", "running" or "done"
    proxySecret,        \* process.env.PROXY_SECRET ("": not configured)
    apiReq,             \* the HTTP request being served
    apiPc,              \* where the serving of apiReq stands
    apiExc,             \* an exception is on its way to the handler's catch
    apiLog              \* the calls made while serving apiReq, in order

cacheVars == <<transporterCache, transporters, now, ticks, reqs, lastCall>>
mimeVars == <<msg, raw, phase, bodyOut, attsOut>>
decodeVars == <<argContent, argEncoding, retDecoded>>
fetchVars == <<fetchReq, inbox, fetchPc, msgs, responses, imap>>
walkVars == <<walkKind, stack, walkPc>>
apiVars == <<proxySecret, apiReq, apiPc, apiExc, apiLog>>
vars == <<transporterCache, transporters, now, ticks, reqs, lastCall,
          msg, raw, phase, bodyOut, attsOut,
          argContent, argEncoding, retDecoded,
          fetchReq, inbox, fetchPc, msgs, responses, imap,
          walkKind, stack, walkPc,
          proxySecret, apiReq, apiPc, apiExc, apiLog>>

(***************************************************************************)
(* Bounds of the model.                                                    *)
(***************************************************************************)
NumReqs == 3
MaxTicks == 2
MaxParts == 2
MaxLen == 4
MaxInbox == 2

(***************************************************************************)
(* Strings.  A string is a sequence of characters, a character a string   *)
(* of the table below: the printable ASCII characters and the escapes TLA+ *)
(* writes stand for themselves, every other code up to 255 (and the grave  *)
(* accent) is written "U+00XX".  CharTable[n + 1] is                       *)
(* String.fromCharCode(n).                                                 *)
(***************************************************************************)
CharTable ==
    <<"U+0000", "U+0001", "U+0002", "U+0003", "U+0004", "U+0005", "U+0006",
      "U+0007", "U+0008", "\t", "\n", "U+000B", "\f", "\r", "U+000E",
      "U+000F", "U+0010", "U+0011", "U+0012", "U+0013", "U+0014", "U+0015",
      "U+0016", "U+0017", "U+0018", "U+0019", "U+001A", "U+001B", "U+001C",
      "U+001D", "U+001E", "U+001F", " ", "!", "\"", "#", "$", "%", "&",
      "'", "(", ")", "*", "+", ",", "-", ".", "/", "0", "1", "2", "3", "4",
      "5", "6", "7", "8", "9", ":", ";", "<", "=", ">", "?", "@", "A", "B",
      "C", "D", "E", "F", "G", "H", "I", "J", "K", "L", "M", "N", "O", "P",
      "Q", "R", "S", "T", "U", "V", "W", "X", "Y", "Z", "[", "\\", "]",
      "^", "_", "U+0060", "a", "b", "c", "d", "e", "f", "g", "h", "i", "j", "k",
      "l", "m", "n", "o", "p", "q", "r", "s", "t", "u", "v", "w", "x", "y",
      "z", "{", "|", "}", "~", "U+007F", "U+0080", "U+0081", "U+0082",
      "U+0083", "U+0084", "U+0085", "U+0086", "U+0087", "U+0088", "U+0089",
      "U+008A", "U+008B", "U+008C", "U+008D", "U+008E", "U+008F", "U+0090",
      "U+0091", "U+0092", "U+0093", "U+0094", "U+0095", "U+0096", "U+0097",
      "U+0098", "U+0099", "U+009A", "U+009B", "U+009C", "U+009D", "U+009E",
      "U+009F", "U+00A0", "U+00A1", "U+00A2", "U+00A3", "U+00A4", "U+00A5",
      "U+00A6", "U+00A7", "U+00A8", "U+00A9", "U+00AA", "U+00AB", "U+00AC",
      "U+00AD", "U+00AE", "U+00AF", "U+00B0", "U+00B1", "U+00B2", "U+00B3",
      "U+00B4", "U+00B5", "U+00B6", "U+00B7", "U+00B8", "U+00B9", "U+00BA",
      "U+00BB", "U+00BC", "U+00BD", "U+00BE", "U+00BF", "U+00C0", "U+00C1",
      "U+00C2", "U+00C3", "U+00C4", "U+00C5", "U+00C6", "U+00C7", "U+00C8",
      "U+00C9", "U+00CA", "U+00CB", "U+00CC", "U+00CD", "U+00CE", "U+00CF",
      "U+00D0", "U+00D1", "U+00D2", "U+00D3", "U+00D4", "U+00D5", "U+00D6",
      "U+00D7", "U+00D8", "U+00D9", "U+00DA", "U+00DB", "U+00DC", "U+00DD",
      "U+00DE", "U+00DF", "U+00E0", "U+00E1", "U+00E2", "U+00E3", "U+00E4",
      "U+00E5", "U+00E6", "U+00E7", "U+00E8", "U+00E9", "U+00EA", "U+00EB",
      "U+00EC", "U+00ED", "U+00EE", "U+00EF", "U+00F0", "U+00F1", "U+00F2",
      "U+00F3", "U+00F4", "U+00F5", "U+00F6", "U+00F7", "U+00F8", "U+00F9",
      "U+00FA", "U+00FB", "U+00FC", "U+00FD", "U+00FE", "U+00FF">>

\* Code points above U+00FF, and the replacement character of a UTF-8
\* decoding.
HighChar == "U+HIGH"
ReplacementChar == "U+FFFD"

fromCharCode(n) == CharTable[n + 1]

\* c.charCodeAt(0)
charCode(c) == (CHOOSE i \in 1..Len(CharTable) : CharTable[i] = c) - 1

UpperLetters ==
    <<"A", "B", "C", "D", "E", "F", "G", "H", "I", "J", "K", "L", "M", "N",
      "O", "P", "Q", "R", "S", "T", "U", "V", "W", "X", "Y", "Z">>

LowerLetters ==
    <<"a", "b", "c", "d", "e", "f", "g", "h", "i", "j", "k", "l", "m", "n",
      "o", "p", "q", "r", "s", "t", "u", "v", "w", "x", "y", "z">>

\* String.prototype.toLowerCase on one character (ASCII letters).
LowerChar(c) ==
    IF \E i \in 1..Len(UpperLetters) : UpperLetters[i] = c
    THEN LowerLetters[CHOOSE i \in 1..Len(UpperLetters) : UpperLetters[i] = c]
    ELSE c

toLowerCase(s) == [i \in 1..Len(s) |-> LowerChar(s[i])]

\* The characters \s matches and trim() removes.
WhiteSpace == {" ", "\t", "\n", "\r", "\f", "U+000B", "U+00A0"}

Min(S) == CHOOSE x \in S : \A y \in S : x <= y

Max(S) == CHOOSE x \in S : \A y \in S : x >= y

\* s.substring(a, b) and s.substring(a), with JavaScript's 0-based offsets.
\* Each offset is clamped to 0..s.length and the smaller one is the start.
substring(s, a, b) ==
    LET ca == Max({0, Min({a, Len(s)})})
        cb == Max({0, Min({b, Len(s)})})
    IN  SubSeq(s, Min({ca, cb}) + 1, Max({ca, cb}))

substringFrom(s, a) == substring(s, a, Len(s))

\* Whether pat occurs in s at offset i.
OccursAt(s, pat, i) ==
    /\ i >= 0
    /\ i + Len(pat) <= Len(s)
    /\ \A j \in 1..Len(pat) : s[i + j] = pat[j]

\* s.indexOf(pat, from): the first offset at or after from, or -1.
indexOfFrom(s, pat, from) ==
    LET hits == {i \in from..(Len(s) - Len(pat)) : OccursAt(s, pat, i)}
    IN  IF hits = {} THEN -1 ELSE Min(hits)

indexOf(s, pat) == indexOfFrom(s, pat, 0)

includes(s, pat) == indexOf(s, pat) # -1

startsWith(s, pat) == OccursAt(s, pat, 0)

\* s.trim()
trim(s) ==
    LET keep == {i \in 1..Len(s) : s[i] \notin WhiteSpace}
    IN  IF keep = {} THEN <<>> ELSE SubSeq(s, Min(keep), Max(keep))

\* The concatenation of piece(lo), ..., piece(hi), by halving.
RECURSIVE ConcatMap(_, _, _)
ConcatMap(piece(_), lo, hi) ==
    IF lo > hi THEN <<>>
    ELSE IF lo = hi THEN piece(lo)
    ELSE LET mid == (lo + hi) \div 2
         IN  ConcatMap(piece, lo, mid) \o ConcatMap(piece, mid + 1, hi)

\* s.replace(/\s/g, "")
stripWhiteSpace(s) ==
    LET piece(i) == IF s[i] \in WhiteSpace THEN <<>> ELSE <<s[i]>>
    IN  ConcatMap(piece, 1, Len(s))

\* s.replace(/--$/, "")
stripTrailingDashes(s) ==
    IF Len(s) >= 2 /\ s[Len(s) - 1] = "-" /\ s[Len(s)] = "-"
    THEN SubSeq(s, 1, Len(s) - 2)
    ELSE s

\* s.split(sep) for a non-empty sep: the pieces between the occurrences of
\* sep, found from left to right.
RECURSIVE splitFrom(_, _, _)
splitFrom(s, sep, from) ==
    LET k == indexOfFrom(s, sep, from)
    IN  IF k = -1 THEN <<substringFrom(s, from)>>
        ELSE <<substring(s, from, k)>> \o splitFrom(s, sep, k + Len(sep))

split(s, sep) == splitFrom(s, sep, 0)

(***************************************************************************)
(* The regular expressions of the MIME helpers.  A match is                *)
(* [found, text]: whether the expression matched and its first group.      *)
(***************************************************************************)
NoMatch == [found |-> FALSE, text |-> <<>>]

s_boundaryEq ==
    <<"b", "o", "u", "n", "d", "a", "r", "y", "=">>

s_filenameEq ==
    <<"f", "i", "l", "e", "n", "a", "m", "e", "=">>

s_contentTransferEncoding ==
    <<"c", "o", "n", "t", "e", "n", "t", "-", "t", "r", "a", "n", "s", "f",
      "e", "r", "-", "e", "n", "c", "o", "d", "i", "n", "g", ":">>

s_contentType ==
    <<"c", "o", "n", "t", "e", "n", "t", "-", "t", "y", "p", "e", ":">>

\* The characters [^";\r\n] excludes.
ParamStop == {"\"", ";", "\r", "\n"}

\* s.match(/<keyword>"?([^";\r\n]+)"?/i) for a lower-case keyword: the
\* leftmost occurrence of the keyword (in any letter case) that an optional
\* quote and at least one value character follow; the group is the longest
\* run of value characters.
matchParam(s, keyword) ==
    LET low == toLowerCase(s)
        valueStart(i) ==
            LET j == i + Len(keyword)
            IN  IF j < Len(s) /\ s[j + 1] = "\"" THEN j + 1 ELSE j
        ok(i) ==
            /\ OccursAt(low, keyword, i)
            /\ valueStart(i) < Len(s)
            /\ s[valueStart(i) + 1] \notin ParamStop
        hits == {i \in 0..(Len(s) - Len(keyword)) : ok(i)}
    IN  IF hits = {} THEN NoMatch
        ELSE LET b == valueStart(Min(hits)) + 1
                 stops == {k \in b..Len(s) : s[k] \in ParamStop}
                 e == IF stops = {} THEN Len(s) ELSE Min(stops) - 1
             IN  [found |-> TRUE, text |-> SubSeq(s, b, e)]

\* s.match(/boundary="?([^";\r\n]+)"?/i)
matchBoundary(s) == matchParam(s, s_boundaryEq)

\* s.match(/filename="?([^";\r\n]+)"?/i)
matchFilename(s) == matchParam(s, s_filenameEq)

\* s.match(/content-transfer-encoding:\s*(\S+)/) on lower-cased headers:
\* the leftmost occurrence that, after any white space, a character that is
\* not white space follows; the group is the run of such characters.
matchEncoding(s) ==
    LET kw == s_contentTransferEncoding
        valueStart(i) ==
            LET ns == {k \in (i + Len(kw) + 1)..Len(s) : s[k] \notin WhiteSpace}
            IN  IF ns = {} THEN 0 ELSE Min(ns)
        hits == {i \in 0..(Len(s) - Len(kw)) :
                    OccursAt(s, kw, i) /\ valueStart(i) # 0}
    IN  IF hits = {} THEN NoMatch
        ELSE LET b == valueStart(Min(hits))
                 ws == {k \in b..Len(s) : s[k] \in WhiteSpace}
                 e == IF ws = {} THEN Len(s) ELSE Min(ws) - 1
             IN  [found |-> TRUE, text |-> SubSeq(s, b, e)]

\* s.match(/Content-Type:\s*([^;\r\n]+)/i).  \s* takes all the white space
\* after the colon; when no value character follows it, it gives white space
\* back until the group can start on a blank that is neither CR nor LF.
matchContentType(s) ==
    LET low == toLowerCase(s)
        kw == s_contentType
        stop == {";", "\r", "\n"}
        first(i) == i + Len(kw) + 1
        afterSpace(i) ==
            LET ns == {k \in first(i)..Len(s) : s[k] \notin WhiteSpace}
            IN  IF ns = {} THEN Len(s) + 1 ELSE Min(ns)
        direct(i) == afterSpace(i) <= Len(s) /\ s[afterSpace(i)] \notin stop
        givenBack(i) == {k \in first(i)..(afterSpace(i) - 1) : s[k] \notin stop}
        ok(i) == OccursAt(low, kw, i) /\ (direct(i) \/ givenBack(i) # {})
        hits == {i \in 0..(Len(s) - Len(kw)) : ok(i)}
    IN  IF hits = {} THEN NoMatch
        ELSE LET i == Min(hits)
                 b == IF direct(i) THEN afterSpace(i) ELSE Max(givenBack(i))
                 stops == {k \in b..Len(s) : s[k] \in stop}
                 e == IF stops = {} THEN Len(s) ELSE Min(stops) - 1
             IN  [found |-> TRUE, text |-> SubSeq(s, b, e)]

(***************************************************************************)
(* decodePart.                                                             *)
(***************************************************************************)
s_base64 ==
    <<"b", "a", "s", "e", "6", "4">>

s_quotedPrintable ==
    <<"q", "u", "o", "t", "e", "d", "-", "p", "r", "i", "n", "t", "a", "b",
      "l", "e">>

Base64Alphabet ==
    <<"A", "B", "C", "D", "E", "F", "G", "H", "I", "J", "K", "L", "M", "N",
      "O", "P", "Q", "R", "S", "T", "U", "V", "W", "X", "Y", "Z", "a", "b",
      "c", "d", "e", "f", "g", "h", "i", "j", "k", "l", "m", "n", "o", "p",
      "q", "r", "s", "t", "u", "v", "w", "x", "y", "z", "0", "1", "2", "3",
      "4", "5", "6", "7", "8", "9", "+", "/">>

HexDigits ==
    <<"0", "1", "2", "3", "4", "5", "6", "7", "8", "9", "a", "b", "c", "d",
      "e", "f">>

IsBase64Char(c) ==
    c \in {"-", "_"} \/ \E i \in 1..Len(Base64Alphabet) : Base64Alphabet[i] = c

\* The six bits of a base64 character; "-" and "_" of the URL-safe alphabet
\* are accepted for "+" and "/".
unbase64(c) ==
    IF c = "-" THEN 62
    ELSE IF c = "_" THEN 63
    ELSE (CHOOSE i \in 1..Len(Base64Alphabet) : Base64Alphabet[i] = c) - 1

\* Buffer.from(s, "base64"): the bytes of the legal characters before the
\* first "="; characters outside the alphabet are skipped, a trailing group
\* of two or three characters gives one or two bytes, and nothing raises.
bufferFromBase64(s) ==
    LET eq == {i \in 1..Len(s) : s[i] = "="}
        last == IF eq = {} THEN Len(s) ELSE Min(eq) - 1
        piece(i) == IF IsBase64Char(s[i]) THEN <<unbase64(s[i])>> ELSE <<>>
        v == ConcatMap(piece, 1, last)
        n == 3 * (Len(v) \div 4)
             + (IF Len(v) % 4 = 2 THEN 1 ELSE IF Len(v) % 4 = 3 THEN 2 ELSE 0)
        byte(j) ==
            LET q == 4 * ((j - 1) \div 3)
                r == (j - 1) % 3
            IN  IF r = 0 THEN (v[q + 1] * 4 + v[q + 2] \div 16) % 256
                ELSE IF r = 1 THEN ((v[q + 2] % 16) * 16 + v[q + 3] \div 4) % 256
                ELSE ((v[q + 3] % 4) * 64 + v[q + 4]) % 256
    IN  [j \in 1..n |-> byte(j)]

\* buf.toString("utf-8").  One- and two-byte sequences are decoded (a code
\* point above U+00FF is written HighChar); every other byte from 0x80 up is
\* written as one replacement character.
utf8ToString(bytes) ==
    LET isCont(i) == i >= 1 /\ i <= Len(bytes) /\ bytes[i] \in 128..191
        isLead2(i) == i >= 1 /\ i <= Len(bytes) /\ bytes[i] \in 194..223
        piece(i) ==
            IF bytes[i] < 128 THEN <<fromCharCode(bytes[i])>>
            ELSE IF isCont(i) THEN
                IF isLead2(i - 1) THEN <<>> ELSE <<ReplacementChar>>
            ELSE IF isLead2(i) /\ isCont(i + 1) THEN
                IF bytes[i] <= 195
                THEN <<fromCharCode((bytes[i] - 192) * 64 + bytes[i + 1] - 128)>>
                ELSE <<HighChar>>
            ELSE <<ReplacementChar>>
    IN  ConcatMap(piece, 1, Len(bytes))

IsHexDigit(c) == \E i \in 1..Len(HexDigits) : HexDigits[i] = LowerChar(c)

\* parseInt(c, 16) of one hexadecimal digit.
hexValue(c) == (CHOOSE i \in 1..Len(HexDigits) : HexDigits[i] = LowerChar(c)) - 1

\* s.replace(/=\r?\n/g, "")
removeSoftBreaks(s) ==
    LET at(i) == IF i >= 1 /\ i <= Len(s) THEN s[i] ELSE ""
        startsBreak(i) ==
            /\ at(i) = "="
            /\ (at(i + 1) = "\n" \/ (at(i + 1) = "\r" /\ at(i + 2) = "\n"))
        inBreak(i) ==
            \/ startsBreak(i)
            \/ (startsBreak(i - 1) /\ at(i) \in {"\r", "\n"})
            \/ (startsBreak(i - 2) /\ at(i - 1) = "\r" /\ at(i) = "\n")
        piece(i) == IF inBreak(i) THEN <<>> ELSE <<s[i]>>
    IN  ConcatMap(piece, 1, Len(s))

\* s.replace(/=([0-9A-Fa-f]{2})/g, (_, hex) => String.fromCharCode(parseInt(hex, 16)))
replaceHexEscapes(s) ==
    LET isEscape(i) ==
            /\ i >= 1
            /\ i + 2 <= Len(s)
            /\ s[i] = "="
            /\ IsHexDigit(s[i + 1])
            /\ IsHexDigit(s[i + 2])
        piece(i) ==
            IF isEscape(i)
            THEN <<fromCharCode(16 * hexValue(s[i + 1]) + hexValue(s[i + 2]))>>
            ELSE IF isEscape(i - 1) \/ isEscape(i - 2) THEN <<>>
            ELSE <<s[i]>>
    IN  ConcatMap(piece, 1, Len(s))

\* try { return Buffer.from(content.replace(/\s/g, ""), "base64")
\*                    .toString("utf-8"); } catch { return content; }
\* Neither call raises on a string, so the catch is never entered.
decodeBase64(content) ==
    utf8ToString(bufferFromBase64(stripWhiteSpace(content)))

decodeQuotedPrintableHexFirst(content) ==
    removeSoftBreaks(replaceHexEscapes(content))

\* content.replace(/=\r?\n/g, "").replace(/=([0-9A-Fa-f]{2})/g, ...)
decodeQuotedPrintable(content) ==
    replaceHexEscapes(removeSoftBreaks(content))

decodePartCaseSensitive(content, encoding) ==
    IF encoding = <<>> THEN content
    ELSE IF trim(encoding) = s_base64 THEN decodeBase64(content)
    ELSE IF trim(encoding) = s_quotedPrintable THEN decodeQuotedPrintable(content)
    ELSE content

\* decodePart(content, encoding); an absent encoding is the empty string.
decodePart(content, encoding) ==
    IF encoding = <<>> THEN content
    ELSE LET enc == trim(toLowerCase(encoding))
         IN  IF enc = s_base64 THEN decodeBase64(content)
             ELSE IF enc = s_quotedPrintable THEN decodeQuotedPrintable(content)
             ELSE content

(***************************************************************************)
(* extractBodyFromSource.                                                  *)
(***************************************************************************)
s_CRLFCRLF == <<"\r", "\n", "\r", "\n">>

s_dashes == <<"-", "-">>

s_textHtml ==
    <<"t", "e", "x", "t", "/", "h", "t", "m", "l">>

s_textPlain ==
    <<"t", "e", "x", "t", "/", "p", "l", "a", "i", "n">>

s_lt == <<"<">>

\* encMatch?.[1] || ""
encodingOf(headers) == matchEncoding(headers).text

resolveBodyTextFirst(acc) == IF acc.text # <<>> THEN acc.text ELSE acc.html

\* return htmlBody || textBody || "";
resolveBody(acc) == IF acc.html # <<>> THEN acc.html ELSE acc.text

\* if (partHeaders.includes("text/html")) htmlBody = decoded;
\* else if (partHeaders.includes("text/plain")) textBody = decoded;
takeLeaf(acc, partHeaders, decoded) ==
    IF includes(partHeaders, s_textHtml) THEN [acc EXCEPT !.html = decoded]
    ELSE IF includes(partHeaders, s_textPlain) THEN [acc EXCEPT !.text = decoded]
    ELSE acc

\* if (nested) { if (!htmlBody && nested.includes("<")) htmlBody = nested;
\*               else if (!textBody) textBody = nested; }
takeNested(acc, nested) ==
    IF nested = <<>> THEN acc
    ELSE IF acc.html = <<>> /\ includes(nested, s_lt) THEN [acc EXCEPT !.html = nested]
    ELSE IF acc.text = <<>> THEN [acc EXCEPT !.text = nested]
    ELSE acc

\* The non-multipart path: the content after the first blank line, decoded
\* and trimmed ("" when there is no blank line).
singlePartBody(src) ==
    LET bodyStart == indexOf(src, s_CRLFCRLF)
    IN  IF bodyStart = -1 THEN <<>>
        ELSE LET headerSection == toLowerCase(substring(src, 0, bodyStart))
                 body == substringFrom(src, bodyStart + 4)
             IN  trim(decodePart(body, encodingOf(headerSection)))

\* if (part.startsWith("--") || !part.trim()) continue;
\* const partHeaderEnd = part.indexOf("\r\n\r\n");
\* if (partHeaderEnd === -1) continue;
isSkippedPart(part) ==
    \/ startsWith(part, s_dashes)
    \/ trim(part) = <<>>
    \/ indexOf(part, s_CRLFCRLF) = -1

partHeadersRawOf(part) == substring(part, 0, indexOf(part, s_CRLFCRLF))

partBodyOfWholePart(part) == part

\* part.substring(partHeaderEnd + 4): what the recursive calls are given.
partBodyOf(part) == substringFrom(part, indexOf(part, s_CRLFCRLF) + 4)

\* part.substring(partHeaderEnd + 4).replace(/--$/, "").trim()
partContentOf(part) == trim(stripTrailingDashes(partBodyOf(part)))

RECURSIVE extractBodyFromSource(_)
RECURSIVE bodyLoop(_, _, _)

\* One turn of  for (const part of parts)  of extractBodyFromSource.
bodyStep(acc, part) ==
    IF isSkippedPart(part) THEN acc
    ELSE LET partHeaders == toLowerCase(partHeadersRawOf(part))
         IN  IF matchBoundary(partHeaders).found
             THEN takeNested(acc, extractBodyFromSource(partBodyOf(part)))
             ELSE takeLeaf(acc, partHeaders,
                           decodePart(partContentOf(part), encodingOf(partHeaders)))

RECURSIVE bodyLoopAbort(_, _, _)
bodyLoopAbort(parts, i, acc) ==
    IF i > Len(parts) \/ isSkippedPart(parts[i]) THEN acc
    ELSE bodyLoopAbort(parts, i + 1, bodyStep(acc, parts[i]))

bodyLoop(parts, i, acc) ==
    IF i > Len(parts) THEN acc
    ELSE bodyLoop(parts, i + 1, bodyStep(acc, parts[i]))

extractBodyFromSource(src) ==
    LET boundaryMatch == matchBoundary(src)
    IN  IF ~boundaryMatch.found THEN singlePartBody(src)
        ELSE LET boundary == trim(boundaryMatch.text)
                 parts == split(src, s_dashes \o boundary)
             IN  resolveBody(bodyLoop(parts, 1, [html |-> <<>>, text |-> <<>>]))

(***************************************************************************)
(* extractAttachmentsFromSource.                                           *)
(***************************************************************************)
s_dispositionAttachment ==
    <<"c", "o", "n", "t", "e", "n", "t", "-", "d", "i", "s", "p", "o", "s",
      "i", "t", "i", "o", "n", ":", " ", "a", "t", "t", "a", "c", "h", "m",
      "e", "n", "t">>

s_dispositionInline ==
    <<"c", "o", "n", "t", "e", "n", "t", "-", "d", "i", "s", "p", "o", "s",
      "i", "t", "i", "o", "n", ":", " ", "i", "n", "l", "i", "n", "e">>

s_attachment ==
    <<"a", "t", "t", "a", "c", "h", "m", "e", "n", "t">>

s_octetStream ==
    <<"a", "p", "p", "l", "i", "c", "a", "t", "i", "o", "n", "/", "o", "c",
      "t", "e", "t", "-", "s", "t", "r", "e", "a", "m">>

\* Buffer.from(s, "binary").toString("base64"): the base64 text of the
\* characters' low bytes, padded with "=".
base64OfBinary(s) ==
    LET n == Len(s)
        byte(j) == IF j <= n THEN charCode(s[j]) % 256 ELSE 0
        digit(v) == Base64Alphabet[v + 1]
        out(k) ==
            LET q == 3 * ((k - 1) \div 4)
                r == (k - 1) % 4
            IN  IF r = 0 THEN digit(byte(q + 1) \div 4)
                ELSE IF r = 1
                THEN digit((byte(q + 1) % 4) * 16 + byte(q + 2) \div 16)
                ELSE IF r = 2
                THEN (IF q + 2 > n THEN "="
                      ELSE digit((byte(q + 2) % 16) * 4 + byte(q + 3) \div 64))
                ELSE (IF q + 3 > n THEN "=" ELSE digit(byte(q + 3) % 64))
    IN  [k \in 1..(4 * ((n + 2) \div 3)) |-> out(k)]

isAttachmentPartNoInline(partHeaders) ==
    \/ includes(partHeaders, s_dispositionAttachment)
    \/ /\ includes(partHeaders, s_filenameEq)
       /\ ~includes(partHeaders, s_textPlain)
       /\ ~includes(partHeaders, s_textHtml)

\* isAttachment || isInlineWithFilename
isAttachmentPart(partHeaders) ==
    \/ includes(partHeaders, s_dispositionAttachment)
    \/ /\ includes(partHeaders, s_filenameEq)
       /\ ~includes(partHeaders, s_textPlain)
       /\ ~includes(partHeaders, s_textHtml)
    \/ /\ includes(partHeaders, s_dispositionInline)
       /\ includes(partHeaders, s_filenameEq)

payloadOfUnstripped(encoding, partContent) ==
    IF encoding = s_base64 THEN partContent ELSE base64OfBinary(partContent)

\* if (encoding === "base64") base64Data = partContent.replace(/\s/g, "");
\* else base64Data = Buffer.from(partContent, "binary").toString("base64");
payloadOf(encoding, partContent) ==
    IF encoding = s_base64 THEN stripWhiteSpace(partContent)
    ELSE base64OfBinary(partContent)

sizeOfFloor(base64Data) == (Len(base64Data) * 3) \div 4

\* Math.ceil(base64Data.length * 3 / 4)
sizeOf(base64Data) == (Len(base64Data) * 3 + 3) \div 4

\* The attachments a leaf part contributes: none, or one record.
leafAttachments(part) ==
    LET partHeadersRaw == partHeadersRawOf(part)
        partHeaders == toLowerCase(partHeadersRaw)
        partContent == partContentOf(part)
        filenameMatch == matchFilename(partHeadersRaw)
        ctMatch == matchContentType(partHeadersRaw)
        encMatch == matchEncoding(partHeaders)
        encoding == IF encMatch.found THEN toLowerCase(trim(encMatch.text)) ELSE <<>>
        base64Data == payloadOf(encoding, partContent)
    IN  IF isAttachmentPart(partHeaders) /\ base64Data # <<>>
        THEN <<[filename |-> IF filenameMatch.found THEN trim(filenameMatch.text)
                             ELSE s_attachment,
                mimeType |-> IF ctMatch.found THEN trim(ctMatch.text)
                             ELSE s_octetStream,
                size |-> sizeOf(base64Data),
                base64 |-> base64Data]>>
        ELSE <<>>

RECURSIVE extractAttachmentsFromSource(_)
RECURSIVE attachmentsLoop(_, _)

\* One turn of  for (const part of parts)  of extractAttachmentsFromSource.
attachmentsStep(part) ==
    IF isSkippedPart(part) THEN <<>>
    ELSE IF matchBoundary(toLowerCase(partHeadersRawOf(part))).found
    THEN extractAttachmentsFromSource(partBodyOf(part))
    ELSE leafAttachments(part)

attachmentsLoop(parts, i) ==
    IF i > Len(parts) THEN <<>>
    ELSE attachmentsStep(parts[i]) \o attachmentsLoop(parts, i + 1)

extractAttachmentsFromSource(src) ==
    LET boundaryMatch == matchBoundary(src)
    IN  IF ~boundaryMatch.found THEN <<>>
        ELSE attachmentsLoop(split(src, s_dashes \o trim(boundaryMatch.text)), 1)

(***************************************************************************)
(* The transporter cache.                                                  *)
(***************************************************************************)
TRANSPORTER_TTL == 300000

\* The cache keys `${smtpHost}:${smtpPort}:${smtpUser}` the requests use.
CacheKeys == {"smtp.a:465:u1", "smtp.a:465:u2"}

\* The passwords (smtp_password || imap_password) the requests carry.
Passwords == {"p1", "p2"}

Reqs == 1..NumReqs

\* transporterCache.get(cacheKey) of a key the map does not hold.
NoEntry == [transporter |-> 0, created |-> -1]

NoCall == [key |-> "", pass |-> "", at |-> -1, before |-> NoEntry,
           returned |-> 0, log |-> <<>>, closeThrew |-> FALSE]

\* The clock advances between event-loop turns: by a millisecond, by one
\* millisecond less than the TTL, or by the TTL.
TickSteps == {1, TRANSPORTER_TTL - 1, TRANSPORTER_TTL}

IsFreshNever(cached, t) == FALSE

\* cached && Date.now() - cached.created < TRANSPORTER_TTL
IsFresh(cached, t) ==
    cached # NoEntry /\ t - cached.created < TRANSPORTER_TTL

CloseOldSkipped(cached, trs) == trs

\* cached.transporter.close(): one more close() invoked on the old handle.
CloseOld(cached, trs) ==
    [trs EXCEPT ![cached.transporter].closeCalls = @ + 1]

EvictLogSetFirst(cached, h) ==
    <<[op |-> "create", h |-> h], [op |-> "set", h |-> h],
      [op |-> "close", h |-> cached.transporter],
      [op |-> "delete", h |-> cached.transporter]>>

\* The order of the effects of a call that finds a stale entry.
EvictLog(cached, h) ==
    <<[op |-> "close", h |-> cached.transporter],
      [op |-> "delete", h |-> cached.transporter],
      [op |-> "create", h |-> h], [op |-> "set", h |-> h]>>

\* getTransporter(smtpHost, smtpPort, smtpUser, smtpPass, ...): one
\* synchronous call (it holds no await, so it runs to completion within one
\* event-loop turn).  ret is the transporter it returns; throws says whether
\* close() of a stale transporter raises (the catch swallows it).
SetEntrySweeping(cache, key, entry) ==
    [k \in CacheKeys |->
        IF k = key THEN entry
        ELSE IF cache[k] # NoEntry
                /\ entry.created - cache[k].created >= TRANSPORTER_TTL
        THEN NoEntry
        ELSE cache[k]]

\* transporterCache.set(cacheKey, { transporter, created: Date.now() })
SetEntry(cache, key, entry) == [cache EXCEPT ![key] = entry]

ContinuesOnlyIfCloseReturns(throws) == ~throws

\* try { cached.transporter.close(); } catch {}: whether close() returns or
\* throws, the call goes on to the delete.
ContinuesAfterClose(throws) == TRUE

IsHitForPassword(cached, pass, t) ==
    IsFresh(cached, t) /\ transporters[cached.transporter].pass = pass

\* const cached = transporterCache.get(cacheKey): the key is made of host,
\* port and user, so the entry found is served, when it is fresh, whatever
\* smtpPass the call carries.
IsHit(cached, pass, t) == IsFresh(cached, t)

\* getTransporter as one event-loop turn.  ret is what it returns (0: it
\* returned nothing, an exception left it).
getTransporter(key, pass, throws, ret) ==
    LET cached == transporterCache[key]
        h == Len(transporters) + 1
    IN  IF IsHit(cached, pass, now)
        THEN /\ ret = cached.transporter
             /\ UNCHANGED <<transporterCache, transporters>>
             /\ lastCall' = [key |-> key, pass |-> pass, at |-> now,
                             before |-> cached, returned |-> ret,
                             log |-> <<>>, closeThrew |-> FALSE]
        ELSE IF cached # NoEntry /\ ~ContinuesAfterClose(throws)
        THEN /\ ret = 0
             /\ transporters' = CloseOld(cached, transporters)
             /\ UNCHANGED transporterCache
             /\ lastCall' = [key |-> key, pass |-> pass, at |-> now,
                             before |-> cached, returned |-> ret,
                             log |-> <<[op |-> "close", h |-> cached.transporter]>>,
                             closeThrew |-> TRUE]
        ELSE /\ ret = h
             /\ transporters' =
                    Append(IF cached # NoEntry
                           THEN CloseOld(cached, transporters)
                           ELSE transporters,
                           [key |-> key, pass |-> pass, closeCalls |-> 0])
             /\ transporterCache' =
                    SetEntry(transporterCache, key,
                             [transporter |-> h, created |-> now])
             /\ lastCall' = [key |-> key, pass |-> pass, at |-> now,
                             before |-> cached, returned |-> ret,
                             log |-> IF cached # NoEntry
                                     THEN EvictLog(cached, h)
                                     ELSE <<[op |-> "create", h |-> h],
                                            [op |-> "set", h |-> h]>>,
                             closeThrew |-> (cached # NoEntry /\ throws)]

\* action === "send": the handler up to its await of transporter.sendMail.
\* The requests are numbered in the order in which their handlers start.
SendCall(r) ==
    /\ reqs[r].pc = "idle"
    /\ \A q \in Reqs : q < r => reqs[q].pc # "idle"
    /\ \E key \in CacheKeys, pass \in Passwords, throws \in BOOLEAN :
         \E ret \in 0..(Len(transporters) + 1) :
            /\ getTransporter(key, pass, throws, ret)
            /\ reqs' = [reqs EXCEPT ![r] =
                          IF ret = 0 THEN [pc |-> "failed", transporter |-> 0]
                          ELSE [pc |-> "sendMail", transporter |-> ret]]
    /\ UNCHANGED <<now, ticks>>
    /\ UNCHANGED mimeVars
    /\ UNCHANGED decodeVars
    /\ UNCHANGED fetchVars
    /\ UNCHANGED walkVars
    /\ UNCHANGED apiVars

\* await transporter.sendMail(mailOptions) settles and the handler answers.
SendMailReturn(r) ==
    /\ reqs[r].pc = "sendMail"
    /\ reqs' = [reqs EXCEPT ![r] = [pc |-> "done", transporter |-> 0]]
    /\ UNCHANGED <<transporterCache, transporters, now, ticks, lastCall>>
    /\ UNCHANGED mimeVars
    /\ UNCHANGED decodeVars
    /\ UNCHANGED fetchVars
    /\ UNCHANGED walkVars
    /\ UNCHANGED apiVars

\* Date.now() moves on.
Tick ==
    /\ ticks < MaxTicks
    /\ \E d \in TickSteps : now' = now + d
    /\ ticks' = ticks + 1
    /\ UNCHANGED <<transporterCache, transporters, reqs, lastCall>>
    /\ UNCHANGED mimeVars
    /\ UNCHANGED decodeVars
    /\ UNCHANGED fetchVars
    /\ UNCHANGED walkVars
    /\ UNCHANGED apiVars

\* No message has been fetched.
InitNoMime ==
    /\ msg = [top |-> "single", parts |-> <<>>]
    /\ raw = <<>>
    /\ phase = "none"
    /\ bodyOut = <<>>
    /\ attsOut = <<>>

\* decodePart has not been called.
NotRun == <<"U+NOTRUN">>

InitNoDecode ==
    /\ argContent = <<>>
    /\ argEncoding = <<>>
    /\ retDecoded = NotRun

\* No list or get request has arrived.
NoClient == [connected |-> FALSE, lockHeld |-> FALSE, releases |-> 0, logouts |-> 0]

InitNoFetch ==
    /\ fetchReq = [action |-> "none", maxResults |-> 0, messageId |-> 0]
    /\ inbox = <<>>
    /\ fetchPc = "idle"
    /\ msgs = <<>>
    /\ responses = <<>>
    /\ imap = NoClient

\* Neither helper is being followed call by call.
InitNoWalk ==
    /\ walkKind = "none"
    /\ stack = <<>>
    /\ walkPc = "idle"

\* No request is being followed through the middleware and the handler.
NoRequest ==
    [route |-> "none", secret |-> "", action |-> "none", creds |-> FALSE,
     toSubject |-> FALSE, messageId |-> FALSE, label |-> FALSE]

InitNoApi ==
    /\ proxySecret = ""
    /\ apiReq = NoRequest
    /\ apiPc = "idle"
    /\ apiExc = FALSE
    /\ apiLog = <<>>

InitCache ==
    /\ transporterCache = [k \in CacheKeys |-> NoEntry]
    /\ transporters = <<>>
    /\ now = 0
    /\ ticks = 0
    /\ reqs = [r \in Reqs |-> [pc |-> "idle", transporter |-> 0]]
    /\ lastCall = NoCall

Init ==
    /\ InitCache
    /\ InitNoMime
    /\ InitNoDecode
    /\ InitNoFetch
    /\ InitNoWalk
    /\ InitNoApi

Next ==
    \/ \E r \in Reqs : SendCall(r)
    \/ \E r \in Reqs : SendMailReturn(r)
    \/ Tick

Spec == Init /\ [][Next]_vars

(***************************************************************************)
(* The sources the MIME helpers are run on.  A message is described by its *)
(* top header and its parts; a part by its header fields and its content.  *)
(***************************************************************************)
s_CRLF == <<"\r", "\n">>

s_hdrContentType ==
    <<"C", "o", "n", "t", "e", "n", "t", "-", "T", "y", "p", "e", ":", " ">>

s_hdrDisposition ==
    <<"C", "o", "n", "t", "e", "n", "t", "-", "D", "i", "s", "p", "o", "s",
      "i", "t", "i", "o", "n", ":", " ">>

s_hdrEncoding ==
    <<"C", "o", "n", "t", "e", "n", "t", "-", "T", "r", "a", "n", "s", "f",
      "e", "r", "-", "E", "n", "c", "o", "d", "i", "n", "g", ":", " ">>

s_hdrSubject ==
    <<"S", "u", "b", "j", "e", "c", "t", ":", " ">>

s_paramFilename ==
    <<";", " ", "f", "i", "l", "e", "n", "a", "m", "e", "=", "\"", "a",
      ".", "t", "x", "t", "\"">>

s_paramBoundary ==
    <<";", " ", "b", "o", "u", "n", "d", "a", "r", "y", "=">>

s_outerBoundary ==
    <<"X", "Y", "Z">>

s_innerBoundary ==
    <<"I", "N">>

s_relatedBoundary ==
    <<"R", "2">>

s_digestBoundary ==
    <<"D", "3">>

s_parallelBoundary ==
    <<"P", "4">>

\* The value of a header field or a content, by the name the descriptors
\* use for it.
Text(name) ==
    CASE name = "" -> <<>>
      [] name = "text/plain" -> s_textPlain
      [] name = "text/html" -> s_textHtml
      [] name = "image/png" ->
          <<"i", "m", "a", "g", "e", "/", "p", "n", "g">>
      [] name = "multipart/alternative" ->
          <<"m", "u", "l", "t", "i", "p", "a", "r", "t", "/", "a", "l",
            "t", "e", "r", "n", "a", "t", "i", "v", "e">>
      [] name = "multipart/mixed" ->
          <<"m", "u", "l", "t", "i", "p", "a", "r", "t", "/", "m", "i",
            "x", "e", "d">>
      [] name = "multipart/related" ->
          <<"m", "u", "l", "t", "i", "p", "a", "r", "t", "/", "r", "e",
            "l", "a", "t", "e", "d">>
      [] name = "multipart/digest" ->
          <<"m", "u", "l", "t", "i", "p", "a", "r", "t", "/", "d", "i",
            "g", "e", "s", "t">>
      [] name = "multipart/parallel" ->
          <<"m", "u", "l", "t", "i", "p", "a", "r", "t", "/", "p", "a",
            "r", "a", "l", "l", "e", "l">>
      [] name = "attachment" -> s_attachment
      [] name = "inline" ->
          <<"i", "n", "l", "i", "n", "e">>
      [] name = "base64" -> s_base64
      [] name = "hello" ->
          <<"h", "e", "l", "l", "o">>
      [] name = "bye" ->
          <<"b", "y", "e">>
      [] name = "<b>hi</b>" ->
          <<"<", "b", ">", "h", "i", "<", "/", "b", ">">>
      [] name = "<i>yo</i>" ->
          <<"<", "i", ">", "y", "o", "<", "/", "i", ">">>
      [] name = "<p>in</p>" ->
          <<"<", "p", ">", "i", "n", "<", "/", "p", ">">>
      [] name = "inner" ->
          <<"i", "n", "n", "e", "r">>
      [] name = "aGVsbG8=" ->
          <<"a", "G", "V", "s", "b", "G", "8", "=">>
      [] name = "hi" ->
          <<"h", "i">>
      [] name = "BASE64" ->
          <<"B", "A", "S", "E", "6", "4">>
      [] name = "7bit" ->
          <<"7", "b", "i", "t">>
      [] name = "quoted-printable" ->
          <<"q", "u", "o", "t", "e", "d", "-", "p", "r", "i", "n", "t",
            "a", "b", "l", "e">>
      [] name = "aGVs<CRLF>bG8=" ->
          <<"a", "G", "V", "s", "\r", "\n", "b", "G", "8", "=">>
      [] name = "aGk" ->
          <<"a", "G", "k">>
      [] name = "aGk=!!!!" ->
          <<"a", "G", "k", "=", "!", "!", "!", "!">>
      [] name = "a=3Db" ->
          <<"a", "=", "3", "D", "b">>
      [] name = "hello world" ->
          <<"h", "e", "l", "l", "o", " ", "w", "o", "r", "l", "d">>
      [] name = "<SP>hello world<CRLF>" ->
          <<" ", " ", "h", "e", "l", "l", "o", " ", "w", "o", "r", "l",
            "d", "\r", "\n">>
      [] name = "hi<CRLF><CRLF>more" ->
          <<"h", "i", "\r", "\n", "\r", "\n", "m", "o", "r", "e">>
      [] name = "a=20" ->
          <<"a", "=", "2", "0">>
      [] name = "Content-Type: text/html" ->
          <<"C", "o", "n", "t", "e", "n", "t", "-", "T", "y", "p", "e",
            ":", " ", "t", "e", "x", "t", "/", "h", "t", "m", "l">>
      [] name = "<SP><SP>" ->
          <<" ", " ">>
      [] name = "see boundary=XYZ" ->
          <<"s", "e", "e", " ", "b", "o", "u", "n", "d", "a", "r", "y",
            "=", "X", "Y", "Z">>

Leaf(ctype, disp, fname, cte, text) ==
    [kind |-> "leaf", ctype |-> ctype, disp |-> disp, fname |-> fname,
     cte |-> cte, text |-> text, children |-> <<>>]

Nested(ctype, children) ==
    [kind |-> "nested", ctype |-> ctype, disp |-> "", fname |-> FALSE,
     cte |-> "", text |-> "", children |-> children]

\* A segment between two delimiter lines that is not a part: only the text.
Malformed(text) ==
    [kind |-> "raw", ctype |-> "", disp |-> "", fname |-> FALSE,
     cte |-> "", text |-> text, children |-> <<>>]

PlainPart == Leaf("text/plain", "", FALSE, "", "hello")
Plain2Part == Leaf("text/plain", "", FALSE, "", "bye")
HtmlPart == Leaf("text/html", "", FALSE, "", "<b>hi</b>")
Html2Part == Leaf("text/html", "", FALSE, "", "<i>yo</i>")
QuotePart == Leaf("text/plain", "", FALSE, "", "see boundary=XYZ")
FilePart == Leaf("text/plain", "attachment", TRUE, "base64", "aGVsbG8=")
ImagePart == Leaf("image/png", "inline", TRUE, "", "hi")
AltPart ==
    Nested("multipart/alternative",
           <<Leaf("text/plain", "", FALSE, "", "inner"),
             Leaf("text/html", "", FALSE, "", "<p>in</p>")>>)
MixedPart == Nested("multipart/mixed", <<FilePart>>)
\* Multiparts inside multiparts, each level with a boundary of its own.
ParallelPart == Nested("multipart/parallel", <<AltPart, FilePart>>)
DigestPart == Nested("multipart/digest", <<ParallelPart>>)
RelatedPart == Nested("multipart/related", <<HtmlPart, DigestPart>>)
EmptySegment == Malformed("")
BlankSegment == Malformed("<SP><SP>")
NoBlankLineSegment == Malformed("Content-Type: text/html")

LibraryParts ==
    {PlainPart, Plain2Part, HtmlPart, Html2Part, QuotePart, FilePart,
     ImagePart, AltPart, MixedPart}

\* Every combination of the header fields the attachment rule reads.
LeafCombos ==
    {Leaf(ct, d, f, e[1], e[2]) :
        ct \in {"", "text/plain", "text/html", "image/png"},
        d \in {"", "attachment", "inline"},
        f \in BOOLEAN,
        e \in {<<"", "">>, <<"", "hi">>, <<"base64", "aGVsbG8=">>}}

\* Attachment parts under each transfer encoding: base64 in capitals with a
\* line break inside, base64 without padding, base64 followed by characters
\* outside the alphabet, and two encodings that are not base64.
PayloadCombos ==
    {Leaf("image/png", "attachment", TRUE, e[1], e[2]) :
        e \in {<<"BASE64", "aGVs<CRLF>bG8=">>, <<"base64", "aGk">>,
               <<"base64", "aGk=!!!!">>, <<"7bit", "hi">>,
               <<"quoted-printable", "a=3Db">>}}

\* Sources that declare no boundary: a header block (with or without a
\* type and a transfer encoding) and a content.
EntityCombos ==
    {Leaf(ct, "", FALSE, e, t) :
        ct \in {"", "text/plain"},
        e \in {"", "base64", "BASE64", "quoted-printable", "7bit"},
        t \in {"hello world", "<SP>hello world<CRLF>", "hi<CRLF><CRLF>more",
               "aGVsbG8=", "a=20"}}

\* Multipart messages with a segment that is not a part before, between or
\* after parts that are.
SkipMessages ==
    LET good == {PlainPart, HtmlPart, FilePart, ImagePart}
        bad == {EmptySegment, BlankSegment, NoBlankLineSegment}
    IN  {[top |-> "multipart", parts |-> <<a, x, b>>] :
            a \in good, x \in bad, b \in good}
        \cup {[top |-> "multipart", parts |-> <<x, a>>] : x \in bad, a \in good}
        \cup {[top |-> "multipart", parts |-> <<a, x>>] : a \in good, x \in bad}

\* The boundary a nested multipart declares and delimits its parts with.
BoundaryOf(p) ==
    CASE p.ctype = "multipart/related" -> s_relatedBoundary
      [] p.ctype = "multipart/digest" -> s_digestBoundary
      [] p.ctype = "multipart/parallel" -> s_parallelBoundary
      [] OTHER -> s_innerBoundary

\* The header lines of a part, each ended by CRLF but the last.
JoinLines(lines) ==
    LET piece(i) == IF i = 1 THEN lines[i] ELSE s_CRLF \o lines[i]
    IN  ConcatMap(piece, 1, Len(lines))

PartHeaderLines(p) ==
    (IF p.ctype # ""
     THEN <<s_hdrContentType \o Text(p.ctype)
              \o (IF p.kind = "nested" THEN s_paramBoundary \o BoundaryOf(p)
                  ELSE <<>>)
              \o (IF p.fname /\ p.disp = "" THEN s_paramFilename ELSE <<>>)>>
     ELSE IF p.fname /\ p.disp = "" THEN <<s_hdrSubject \o s_paramFilename>>
     ELSE <<>>)
    \o (IF p.disp # ""
        THEN <<s_hdrDisposition \o Text(p.disp)
                 \o (IF p.fname THEN s_paramFilename ELSE <<>>)>>
        ELSE <<>>)
    \o (IF p.cte # "" THEN <<s_hdrEncoding \o Text(p.cte)>> ELSE <<>>)

RECURSIVE RenderPart(_)
RECURSIVE RenderParts(_, _)

\* A multipart body: each part behind its delimiter line, then the closing
\* delimiter.
RenderParts(parts, boundary) ==
    LET piece(i) == s_dashes \o boundary \o s_CRLF \o RenderPart(parts[i]) \o s_CRLF
    IN  ConcatMap(piece, 1, Len(parts)) \o s_dashes \o boundary \o s_dashes

RenderPart(p) ==
    IF p.kind = "raw" THEN Text(p.text)
    ELSE JoinLines(PartHeaderLines(p)) \o s_CRLFCRLF
         \o (IF p.kind = "nested" THEN RenderParts(p.children, BoundaryOf(p))
             ELSE Text(p.text))

\* The top header: one that declares the boundary, or one that declares none.
TopHeader(top) ==
    IF top = "multipart"
    THEN s_hdrContentType \o Text("multipart/alternative")
           \o s_paramBoundary \o s_outerBoundary
    ELSE s_hdrContentType \o Text("text/plain")

\* A multipart message (or its parts under a header that declares no
\* boundary); a single entity; a header block with no blank line after it;
\* a multipart message cut off before its first delimiter line.
Render(m) ==
    IF m.top = "entity" THEN RenderPart(m.parts[1])
    ELSE IF m.top = "headers" THEN JoinLines(PartHeaderLines(m.parts[1]))
    ELSE IF m.top = "truncated"
    THEN TopHeader("multipart") \o s_CRLFCRLF \o RenderPart(m.parts[1])
    ELSE TopHeader(m.top) \o s_CRLFCRLF
           \o RenderParts(m.parts, s_outerBoundary)

RECURSIVE SeqsUpTo(_, _)
\* The sequences over S of length at most n.
SeqsUpTo(S, n) ==
    IF n = 0 THEN {<<>>}
    ELSE LET shorter == SeqsUpTo(S, n - 1)
         IN  shorter \cup {Append(q, x) : q \in {r \in shorter : Len(r) = n - 1}, x \in S}

Messages ==
    {[top |-> t, parts |-> ps] :
        t \in {"multipart", "single"}, ps \in SeqsUpTo(LibraryParts, MaxParts)}
    \cup {[top |-> "multipart", parts |-> <<leaf>>] : leaf \in LeafCombos}
    \cup {[top |-> "multipart", parts |-> <<HtmlPart, leaf>>] : leaf \in LeafCombos}
    \cup {[top |-> "multipart", parts |-> <<leaf>>] : leaf \in PayloadCombos}
    \cup {[top |-> "multipart", parts |-> <<FilePart, leaf>>] : leaf \in PayloadCombos}
    \cup {[top |-> t, parts |-> <<leaf>>] :
            t \in {"entity", "headers"}, leaf \in EntityCombos}
    \cup SkipMessages

\* app.post('/api/:action') get: body = extractBodyFromSource(rawSource)
RunExtractBody ==
    /\ phase = "source"
    /\ bodyOut' = extractBodyFromSource(raw)
    /\ phase' = "body"
    /\ UNCHANGED <<msg, raw, attsOut>>
    /\ UNCHANGED cacheVars
    /\ UNCHANGED decodeVars
    /\ UNCHANGED fetchVars
    /\ UNCHANGED walkVars
    /\ UNCHANGED apiVars

\* app.post('/api/:action') get: attachments = extractAttachmentsFromSource(rawSource)
RunExtractAttachments ==
    /\ phase = "body"
    /\ attsOut' = extractAttachmentsFromSource(raw)
    /\ phase' = "done"
    /\ UNCHANGED <<msg, raw, bodyOut>>
    /\ UNCHANGED cacheVars
    /\ UNCHANGED decodeVars
    /\ UNCHANGED fetchVars
    /\ UNCHANGED walkVars
    /\ UNCHANGED apiVars

InitMime ==
    /\ InitCache
    /\ msg \in Messages
    /\ raw = Render(msg)
    /\ phase = "source"
    /\ bodyOut = <<>>
    /\ attsOut = <<>>
    /\ InitNoDecode
    /\ InitNoFetch
    /\ InitNoWalk
    /\ InitNoApi

NextMime == RunExtractBody \/ RunExtractAttachments

SpecMime == InitMime /\ [][NextMime]_vars

(***************************************************************************)
(* decodePart on its own: every content over a small alphabet, under every *)
(* encoding value.                                                         *)
(***************************************************************************)
DecodeAlphabet == {"Q", "U", "=", "!", " "}

s_BASE64 == <<"B", "A", "S", "E", "6", "4">>

s_7bit == <<"7", "b", "i", "t">>

s_QuotedPrintable ==
    <<"Q", "u", "o", "t", "e", "d", "-", "P", "r", "i", "n", "t", "a", "b",
      "l", "e">>

Encodings ==
    {<<>>, s_base64, s_BASE64, s_quotedPrintable, s_QuotedPrintable, s_7bit}

\* Quoted-printable contents are put together from escapes, soft line
\* breaks, the beginning of an escape and plain digits.
QpPieces ==
    {<<"=", "3", "D">>,
     <<"4", "1">>,
     <<"=", "\r", "\n">>,
     <<"=", "\n">>,
     <<"=", "4">>,
     <<"1">>,
     <<"=", "e", "9">>}

s_softBreakExample ==
    <<"a", "b", "c", "=", "\r", "\n", "d", "e", "f">>

QpContents ==
    {ConcatMap(LAMBDA i : ps[i], 1, Len(ps)) : ps \in SeqsUpTo(QpPieces, MaxLen)}
    \cup {s_softBreakExample}

RunDecodePart ==
    /\ retDecoded = NotRun
    /\ retDecoded' = decodePart(argContent, argEncoding)
    /\ UNCHANGED <<argContent, argEncoding>>
    /\ UNCHANGED cacheVars
    /\ UNCHANGED mimeVars
    /\ UNCHANGED fetchVars
    /\ UNCHANGED walkVars
    /\ UNCHANGED apiVars

InitDecode ==
    /\ InitCache
    /\ InitNoMime
    /\ argContent \in SeqsUpTo(DecodeAlphabet, MaxLen) \cup QpContents
    /\ argEncoding \in Encodings
    /\ retDecoded = NotRun
    /\ InitNoFetch
    /\ InitNoWalk
    /\ InitNoApi

NextDecode == RunDecodePart

SpecDecode == InitDecode /\ [][NextDecode]_vars

(***************************************************************************)
(* The list and get actions of app.post('/api/:action').  The request      *)
(* carries its IMAP credentials; the messages of INBOX are given by their  *)
(* date, their source and whether extraction raises on the source.         *)
(***************************************************************************)
SNIPPET_LENGTH == 200

DEFAULT_MAX_RESULTS == 20

RECURSIVE stripTagsFrom(_, _)
\* b.replace(/<[^>]+>/g, " ") from position i on: a "<", one or more
\* characters other than ">", and the ">" after them become one blank.
stripTagsFrom(b, i) ==
    IF i > Len(b) THEN <<>>
    ELSE LET closing == {k \in (i + 2)..Len(b) : b[k] = ">"}
         IN  IF b[i] = "<" /\ i < Len(b) /\ b[i + 1] # ">" /\ closing # {}
             THEN <<" ">> \o stripTagsFrom(b, Min(closing) + 1)
             ELSE <<b[i]>> \o stripTagsFrom(b, i + 1)

\* .replace(/\s+/g, " ")
collapseWhiteSpace(b) ==
    LET piece(i) ==
            IF b[i] \notin WhiteSpace THEN <<b[i]>>
            ELSE IF i > 1 /\ b[i - 1] \in WhiteSpace THEN <<>>
            ELSE <<" ">>
    IN  ConcatMap(piece, 1, Len(b))

\* b.replace(/<[^>]+>/g, " ").replace(/\s+/g, " ").trim().substring(0, 200)
snippetOf(b) ==
    substring(trim(collapseWhiteSpace(stripTagsFrom(b, 1))), 0, SNIPPET_LENGTH)

\* msg.source.toString() of a message of INBOX.
SourceOf(name) ==
    IF name = "example"
    THEN Render([top |-> "multipart", parts |-> <<PlainPart, HtmlPart>>])
    ELSE Render([top |-> "entity",
                 parts |-> <<Leaf("text/plain", "", FALSE, "", "hello world")>>])

InboxMessages ==
    {[date |-> d, source |-> src, raises |-> x] :
        d \in 1..2, src \in {"none", "example", "hello"}, x \in BOOLEAN}
    \ {[date |-> d, source |-> "none", raises |-> TRUE] : d \in 1..2}

\* An INBOX of one message more than the default of maxResults, the dates
\* neither rising nor falling with the uid.
LongInbox ==
    [i \in 1..(DEFAULT_MAX_RESULTS + 1) |->
        [date |-> (i * 3) % 7, source |-> "none", raises |-> FALSE]]

Inboxes == UNION {[1..n -> InboxMessages] : n \in 0..MaxInbox} \cup {LongInbox}

Response(status, messages, body, attachments) ==
    [status |-> status, messages |-> messages, body |-> body,
     attachments |-> attachments]

\* await client.connect(); const lock = await client.getMailboxLock("INBOX");
Connected == [NoClient EXCEPT !.connected = TRUE, !.lockHeld = TRUE]

\* finally { lock.release(); } finally { await client.logout(); }
Released(c) ==
    [c EXCEPT !.lockHeld = FALSE, !.releases = @ + 1,
              !.connected = FALSE, !.logouts = @ + 1]

\* let snippet = ""; if (msg.source) { try { ... } catch {} }
snippetGuarded(m) ==
    IF m.source = "none" \/ m.raises THEN <<>>
    ELSE snippetOf(extractBodyFromSource(SourceOf(m.source)))

sortKeepsFetchOrder(ms) == ms

\* msgs.sort((a, b) => new Date(b.date).getTime() - new Date(a.date).getTime()):
\* newest first, entries of one date in the order they had.
sortByDateDesc(ms) ==
    LET rank(i) ==
            1 + Cardinality({j \in 1..Len(ms) : ms[j].date > ms[i].date})
              + Cardinality({j \in 1..(i - 1) : ms[j].date = ms[i].date})
    IN  [k \in 1..Len(ms) |-> ms[CHOOSE i \in 1..Len(ms) : rank(i) = k]]

\* const maxResults = params.maxResults || 20;
maxResultsOf(req) ==
    IF req.maxResults = 0 THEN DEFAULT_MAX_RESULTS ELSE req.maxResults

ListConnect ==
    /\ fetchPc = "start"
    /\ fetchReq.action = "list"
    /\ imap' = Connected
    /\ fetchPc' = "fetch"
    /\ UNCHANGED <<fetchReq, inbox, msgs, responses>>
    /\ UNCHANGED <<cacheVars, mimeVars, decodeVars>>
    /\ UNCHANGED walkVars
    /\ UNCHANGED apiVars

\* One turn of  for await (const msg of client.fetch(...)).
ListFetchOne ==
    /\ fetchPc = "fetch"
    /\ Len(msgs) < Len(inbox)
    /\ LET uid == Len(msgs) + 1
       IN  msgs' = Append(msgs, [id |-> uid, snippet |-> snippetGuarded(inbox[uid]),
                                 date |-> inbox[uid].date])
    /\ UNCHANGED <<fetchReq, inbox, fetchPc, responses, imap>>
    /\ UNCHANGED <<cacheVars, mimeVars, decodeVars>>
    /\ UNCHANGED walkVars
    /\ UNCHANGED apiVars

\* msgs.sort(...); return res.json({ messages: msgs.slice(0, maxResults) });
ListRespond ==
    /\ fetchPc = "fetch"
    /\ Len(msgs) = Len(inbox)
    /\ msgs' = sortByDateDesc(msgs)
    /\ responses' = Append(responses,
          Response(200, substring(msgs', 0, maxResultsOf(fetchReq)), <<>>, <<>>))
    /\ imap' = Released(imap)
    /\ fetchPc' = "done"
    /\ UNCHANGED <<fetchReq, inbox>>
    /\ UNCHANGED <<cacheVars, mimeVars, decodeVars>>
    /\ UNCHANGED walkVars
    /\ UNCHANGED apiVars

\* if (!messageId) return res.status(400).json(...)
GetReject ==
    /\ fetchPc = "start"
    /\ fetchReq.action = "get"
    /\ fetchReq.messageId = 0
    /\ responses' = Append(responses, Response(400, <<>>, <<>>, <<>>))
    /\ fetchPc' = "done"
    /\ UNCHANGED <<fetchReq, inbox, msgs, imap>>
    /\ UNCHANGED <<cacheVars, mimeVars, decodeVars>>
    /\ UNCHANGED walkVars
    /\ UNCHANGED apiVars

GetConnect ==
    /\ fetchPc = "start"
    /\ fetchReq.action = "get"
    /\ fetchReq.messageId # 0
    /\ imap' = Connected
    /\ fetchPc' = "fetched"
    /\ UNCHANGED <<fetchReq, inbox, msgs, responses>>
    /\ UNCHANGED <<cacheVars, mimeVars, decodeVars>>
    /\ UNCHANGED walkVars
    /\ UNCHANGED apiVars

\* if (msg.source) { body = extractBodyFromSource(rawSource);
\*                   attachments = extractAttachmentsFromSource(rawSource); }
\* return res.json({...});  An exception of the extraction leaves through
\* the two finally blocks to the handler's catch, which answers 500.
getOutcome(m) ==
    IF m.source = "none" THEN Response(200, <<>>, <<>>, <<>>)
    ELSE IF m.raises THEN Response(500, <<>>, <<>>, <<>>)
    ELSE Response(200, <<>>, extractBodyFromSource(SourceOf(m.source)),
                  extractAttachmentsFromSource(SourceOf(m.source)))

GetRespond ==
    /\ fetchPc = "fetched"
    /\ responses' = Append(responses, getOutcome(inbox[fetchReq.messageId]))
    /\ imap' = Released(imap)
    /\ fetchPc' = "done"
    /\ UNCHANGED <<fetchReq, inbox, msgs>>
    /\ UNCHANGED <<cacheVars, mimeVars, decodeVars>>
    /\ UNCHANGED walkVars
    /\ UNCHANGED apiVars

FetchRequests(box) ==
    {[action |-> "list", maxResults |-> n, messageId |-> 0] : n \in 0..MaxInbox}
    \cup {[action |-> "get", maxResults |-> 0, messageId |-> i] :
            i \in 0..Len(box)}

InitFetch ==
    /\ InitCache
    /\ InitNoMime
    /\ InitNoDecode
    /\ inbox \in Inboxes
    /\ fetchReq \in FetchRequests(inbox)
    /\ fetchPc = "start"
    /\ msgs = <<>>
    /\ responses = <<>>
    /\ imap = NoClient
    /\ InitNoWalk
    /\ InitNoApi

NextFetch ==
    \/ ListConnect
    \/ ListFetchOne
    \/ ListRespond
    \/ GetReject
    \/ GetConnect
    \/ GetRespond

SpecFetch == InitFetch /\ [][NextFetch]_vars

(***************************************************************************)
(* The calls of extractBodyFromSource and extractAttachmentsFromSource,   *)
(* one call frame per call in progress.  Both helpers read the boundary,   *)
(* split and loop over the parts in the same way, and both call themselves *)
(* on the same argument for a part whose headers declare a boundary.       *)
(***************************************************************************)

\* The messages of SpecMime, multiparts nested four deep, and multipart
\* messages cut off before the first delimiter line.
WalkMessages ==
    Messages
    \cup {[top |-> "multipart", parts |-> ps] :
            ps \in {<<RelatedPart>>, <<PlainPart, RelatedPart>>,
                    <<DigestPart, AltPart>>, <<ParallelPart>>}}
    \cup {[top |-> "truncated", parts |-> <<p>>] :
            p \in {PlainPart, HtmlPart, FilePart, AltPart}}

\* const boundaryMatch = raw.match(/boundary=.../i); if there is none the
\* call returns without a loop; else parts = raw.split("--" + boundary).
callFrame(src) ==
    LET boundaryMatch == matchBoundary(src)
    IN  [src |-> src,
         parts |-> IF boundaryMatch.found
                   THEN split(src, s_dashes \o trim(boundaryMatch.text))
                   ELSE <<>>,
         i |-> 1]

\* The part is not skipped and  partHeaders.match(/boundary=.../i)  matches.
isNestedPart(part) ==
    /\ ~isSkippedPart(part)
    /\ matchBoundary(toLowerCase(partHeadersRawOf(part))).found

TopFrame == stack[Len(stack)]

\* The caller's frame with the loop moved to the next part.
Advanced == [stack EXCEPT ![Len(stack)].i = @ + 1]

\* The handler calls the helper on the raw source.
WalkStart ==
    /\ walkPc = "idle"
    /\ stack' = <<callFrame(raw)>>
    /\ walkPc' = "running"
    /\ UNCHANGED walkKind
    /\ UNCHANGED <<cacheVars, mimeVars, decodeVars, fetchVars>>
    /\ UNCHANGED apiVars

\* A turn of the loop that makes no call: a skipped segment or a leaf.
WalkPart ==
    /\ walkPc = "running"
    /\ TopFrame.i <= Len(TopFrame.parts)
    /\ ~isNestedPart(TopFrame.parts[TopFrame.i])
    /\ stack' = Advanced
    /\ UNCHANGED <<walkKind, walkPc>>
    /\ UNCHANGED <<cacheVars, mimeVars, decodeVars, fetchVars>>
    /\ UNCHANGED apiVars

\* A turn of the loop on a nested multipart: the helper calls itself.
WalkRecurse ==
    /\ walkPc = "running"
    /\ TopFrame.i <= Len(TopFrame.parts)
    /\ isNestedPart(TopFrame.parts[TopFrame.i])
    /\ stack' = Append(Advanced,
                       callFrame(partBodyOf(TopFrame.parts[TopFrame.i])))
    /\ UNCHANGED <<walkKind, walkPc>>
    /\ UNCHANGED <<cacheVars, mimeVars, decodeVars, fetchVars>>
    /\ UNCHANGED apiVars

\* The loop is over (or there was none): the call returns to its caller.
WalkReturn ==
    /\ walkPc = "running"
    /\ TopFrame.i > Len(TopFrame.parts)
    /\ stack' = SubSeq(stack, 1, Len(stack) - 1)
    /\ walkPc' = IF Len(stack) = 1 THEN "done" ELSE "running"
    /\ UNCHANGED walkKind
    /\ UNCHANGED <<cacheVars, mimeVars, decodeVars, fetchVars>>
    /\ UNCHANGED apiVars

InitWalk ==
    /\ InitCache
    /\ msg \in WalkMessages
    /\ raw = Render(msg)
    /\ phase = "source"
    /\ bodyOut = <<>>
    /\ attsOut = <<>>
    /\ InitNoDecode
    /\ InitNoFetch
    /\ walkKind \in {"body", "attachments"}
    /\ stack = <<>>
    /\ walkPc = "idle"
    /\ InitNoApi

NextWalk == WalkStart \/ WalkPart \/ WalkRecurse \/ WalkReturn

\* A step of NextWalk is possible exactly when the handler's call has not
\* returned: a call in progress has a frame, and its loop either has a part
\* left (WalkPart or WalkRecurse) or is over (WalkReturn).
CallInProgress == walkPc # "done"

\* A call runs to completion, since nothing else runs on the thread
\* meanwhile: weak fairness of NextWalk, WF_vars(NextWalk), with
\* ENABLED <<NextWalk>>_vars written out as CallInProgress.
WalkRunsToCompletion ==
    []<>(~CallInProgress) \/ []<><<NextWalk>>_vars

SpecWalk == InitWalk /\ [][NextWalk]_vars /\ WalkRunsToCompletion

(***************************************************************************)
(* A request through authMiddleware and app.post('/api/:action').  Every   *)
(* call to the response, the IMAP client and the transporter is logged     *)
(* with whether it returned (ok) or raised; each awaited call may raise.   *)
(***************************************************************************)
Actions ==
    {"send", "list", "get", "markRead", "markUnread", "listLabels",
     "modifyLabels", "archive"}

\* The actions that read  const { messageId } = params  and refuse without it.
NeedsMessageId == {"get", "markRead", "markUnread", "modifyLabels"}

\* The values of process.env.PROXY_SECRET and of the x-proxy-secret header
\* ("": the variable is not set, the header is missing).
Secrets == {"", "s3cret", "guess"}

Requests ==
    {[route |-> "health", secret |-> h, action |-> "none", creds |-> FALSE,
      toSubject |-> FALSE, messageId |-> FALSE, label |-> FALSE] : h \in Secrets}
    \cup [route : {"api"}, secret : Secrets, action : Actions, creds : BOOLEAN,
          toSubject : BOOLEAN, messageId : BOOLEAN, label : BOOLEAN]

Call(op, ok) == [op |-> op, ok |-> ok, status |-> 0]

\* res.status(status).json(...): once a response has been sent, a further
\* call raises (the headers cannot be set again).
Respond(log, status) ==
    Append(log, [op |-> "respond",
                 ok |-> (\A i \in 1..Len(log) : log[i].op # "respond"),
                 status |-> status])

IsAuthorizedAlways(configured, header) == TRUE

\* if (!PROXY_SECRET) return next();
\* if (req.headers['x-proxy-secret'] !== PROXY_SECRET) return res.status(401)...
IsAuthorized(configured, header) ==
    configured = "" \/ header = configured

\* What the handler answers before it opens anything: 400 for missing
\* credentials, a missing to/subject or messageId and an unknown action; 200
\* for modifyLabels without a label to add; 0: it goes on.
earlyStatus(req) ==
    IF ~req.creds THEN 400
    ELSE IF req.action = "send" THEN (IF req.toSubject THEN 0 ELSE 400)
    ELSE IF req.action \in NeedsMessageId /\ ~req.messageId THEN 400
    ELSE IF req.action = "modifyLabels" /\ ~req.label THEN 200
    ELSE IF req.action \notin Actions \ {"archive"} THEN 400
    ELSE 0

afterLockNoFinally(ok) == IF ok THEN "operation" ELSE "catch"

\* try { const lock = await client.getMailboxLock("INBOX"); try { ... }
\* } finally { await client.logout(); }: a failure to lock leaves through
\* the outer finally.
afterLock(ok) == IF ok THEN "operation" ELSE "logout"

\* app.get('/health', ...)
Health ==
    /\ apiPc = "start"
    /\ apiReq.route = "health"
    /\ apiLog' = Respond(apiLog, 200)
    /\ apiPc' = "done"
    /\ UNCHANGED <<proxySecret, apiReq, apiExc>>
    /\ UNCHANGED <<cacheVars, mimeVars, decodeVars, fetchVars, walkVars>>

\* app.use('/api', authMiddleware)
authMiddleware ==
    /\ apiPc = "start"
    /\ apiReq.route = "api"
    /\ IF IsAuthorized(proxySecret, apiReq.secret)
       THEN /\ apiPc' = "handler"
            /\ UNCHANGED apiLog
       ELSE /\ apiLog' = Respond(apiLog, 401)
            /\ apiPc' = "done"
    /\ UNCHANGED <<proxySecret, apiReq, apiExc>>
    /\ UNCHANGED <<cacheVars, mimeVars, decodeVars, fetchVars, walkVars>>

\* The handler up to its first call: the early returns, else the action.
HandlerStart ==
    /\ apiPc = "handler"
    /\ IF earlyStatus(apiReq) # 0
       THEN /\ apiLog' = Respond(apiLog, earlyStatus(apiReq))
            /\ apiPc' = "done"
       ELSE /\ apiPc' = IF apiReq.action = "send" THEN "getTransporter"
                        ELSE "connect"
            /\ UNCHANGED apiLog
    /\ UNCHANGED <<proxySecret, apiReq, apiExc>>
    /\ UNCHANGED <<cacheVars, mimeVars, decodeVars, fetchVars, walkVars>>

\* const transporter = getTransporter(...)
ApiGetTransporter ==
    /\ apiPc = "getTransporter"
    /\ apiLog' = Append(apiLog, Call("getTransporter", TRUE))
    /\ apiPc' = "sendMail"
    /\ UNCHANGED <<proxySecret, apiReq, apiExc>>
    /\ UNCHANGED <<cacheVars, mimeVars, decodeVars, fetchVars, walkVars>>

\* const info = await transporter.sendMail(mailOptions); return res.json(...)
ApiSendMail ==
    /\ apiPc = "sendMail"
    /\ \E ok \in BOOLEAN :
          /\ apiLog' = IF ok THEN Respond(Append(apiLog, Call("sendMail", ok)), 200)
                       ELSE Append(apiLog, Call("sendMail", ok))
          /\ apiPc' = IF ok THEN "done" ELSE "catch"
          /\ apiExc' = ~ok
    /\ UNCHANGED <<proxySecret, apiReq>>
    /\ UNCHANGED <<cacheVars, mimeVars, decodeVars, fetchVars, walkVars>>

\* await client.connect(): it is awaited before the try, so its failure goes
\* to the handler's catch with no logout.
ApiConnect ==
    /\ apiPc = "connect"
    /\ \E ok \in BOOLEAN :
          /\ apiLog' = Append(apiLog, Call("connect", ok))
          /\ apiPc' = IF ~ok THEN "catch"
                      ELSE IF apiReq.action = "listLabels" THEN "operation"
                      ELSE "lock"
          /\ apiExc' = ~ok
    /\ UNCHANGED <<proxySecret, apiReq>>
    /\ UNCHANGED <<cacheVars, mimeVars, decodeVars, fetchVars, walkVars>>

\* const lock = await client.getMailboxLock("INBOX")
ApiLock ==
    /\ apiPc = "lock"
    /\ \E ok \in BOOLEAN :
          /\ apiLog' = Append(apiLog, Call("getMailboxLock", ok))
          /\ apiPc' = afterLock(ok)
          /\ apiExc' = ~ok
    /\ UNCHANGED <<proxySecret, apiReq>>
    /\ UNCHANGED <<cacheVars, mimeVars, decodeVars, fetchVars, walkVars>>

\* The body of the inner try: the fetch, fetchOne, messageFlagsAdd,
\* messageFlagsRemove, messageMove or list call, and  return res.json(...)
\* when it returned.
ApiOperation ==
    /\ apiPc = "operation"
    /\ \E ok \in BOOLEAN :
          /\ apiLog' = IF ok THEN Respond(Append(apiLog, Call("operation", ok)), 200)
                       ELSE Append(apiLog, Call("operation", ok))
          /\ apiExc' = ~ok
    /\ apiPc' = IF apiReq.action = "listLabels" THEN "logout" ELSE "release"
    /\ UNCHANGED <<proxySecret, apiReq>>
    /\ UNCHANGED <<cacheVars, mimeVars, decodeVars, fetchVars, walkVars>>

\* finally { lock.release(); }
ApiRelease ==
    /\ apiPc = "release"
    /\ \E ok \in BOOLEAN :
          /\ apiLog' = Append(apiLog, Call("release", ok))
          /\ apiExc' = (apiExc \/ ~ok)
    /\ apiPc' = "logout"
    /\ UNCHANGED <<proxySecret, apiReq>>
    /\ UNCHANGED <<cacheVars, mimeVars, decodeVars, fetchVars, walkVars>>

\* finally { await client.logout(); }
ApiLogout ==
    /\ apiPc = "logout"
    /\ \E ok \in BOOLEAN :
          /\ apiLog' = Append(apiLog, Call("logout", ok))
          /\ apiExc' = (apiExc \/ ~ok)
          /\ apiPc' = IF apiExc \/ ~ok THEN "catch" ELSE "done"
    /\ UNCHANGED <<proxySecret, apiReq>>
    /\ UNCHANGED <<cacheVars, mimeVars, decodeVars, fetchVars, walkVars>>

\* } catch (error) { ... return res.status(500).json({ error: msg, ... }); }
ApiCatch ==
    /\ apiPc = "catch"
    /\ apiLog' = Respond(apiLog, 500)
    /\ apiExc' = FALSE
    /\ apiPc' = "done"
    /\ UNCHANGED <<proxySecret, apiReq>>
    /\ UNCHANGED <<cacheVars, mimeVars, decodeVars, fetchVars, walkVars>>

InitApi ==
    /\ InitCache
    /\ InitNoMime
    /\ InitNoDecode
    /\ InitNoFetch
    /\ walkKind = "none"
    /\ stack = <<>>
    /\ walkPc = "idle"
    /\ proxySecret \in {"", "s3cret"}
    /\ apiReq \in Requests
    /\ apiPc = "start"
    /\ apiExc = FALSE
    /\ apiLog = <<>>

NextApi ==
    \/ Health
    \/ authMiddleware
    \/ HandlerStart
    \/ ApiGetTransporter
    \/ ApiSendMail
    \/ ApiConnect
    \/ ApiLock
    \/ ApiOperation
    \/ ApiRelease
    \/ ApiLogout
    \/ ApiCatch

SpecApi == InitApi /\ [][NextApi]_vars

(***************************************************************************)
(* Claims about the transporter cache (checked under Spec).                *)
(***************************************************************************)

\* The step is the getTransporter call of request r.
IsCallStep(r) == reqs[r].pc = "idle" /\ reqs'[r].pc = "sendMail"

\* The entry the call of this step finds under its key.
CallCached == transporterCache[lastCall'.key]

\* The handles created for key k on which close() was never invoked.
LiveHandles(k) ==
    {h \in 1..Len(transporters) :
        transporters[h].key = k /\ transporters[h].closeCalls = 0}

\* C1: a getTransporter call for a key whose entry is younger than the TTL
\* returns the cached handle itself, constructs no handle, closes nothing and
\* leaves the entry (handle and creation timestamp) as it was.
C1_FreshCallReturnsCached ==
    [][\A r \in Reqs :
          (/\ IsCallStep(r)
           /\ CallCached # NoEntry
           /\ now - CallCached.created < TRANSPORTER_TTL)
          => /\ reqs'[r].transporter = CallCached.transporter
             /\ transporters' = transporters
             /\ transporterCache' = transporterCache]_vars

\* A second call for a key came after the clock had moved, within the TTL,
\* and was served from the cache.
C1_Witness ==
    /\ lastCall # NoCall
    /\ lastCall.before # NoEntry
    /\ lastCall.at > lastCall.before.created
    /\ lastCall.at - lastCall.before.created < TRANSPORTER_TTL
    /\ lastCall.returned = lastCall.before.transporter

\* The position of the first event op(h) in a call's log (0: none).
LogIndex(log, op, h) ==
    IF \E i \in 1..Len(log) : log[i] = [op |-> op, h |-> h]
    THEN CHOOSE i \in 1..Len(log) :
            /\ log[i] = [op |-> op, h |-> h]
            /\ \A j \in 1..(i - 1) : log[j] # [op |-> op, h |-> h]
    ELSE 0

\* C2: a getTransporter call for a key whose entry is TTL old or older
\* returns a new handle, distinct from the cached one; close() is invoked on
\* the previous handle exactly once, before the new handle is installed with
\* the current timestamp; and no handle ever has close() invoked twice.
C2_StaleCallReplaces ==
    /\ [][\A r \in Reqs :
            (/\ IsCallStep(r)
             /\ CallCached # NoEntry
             /\ now - CallCached.created >= TRANSPORTER_TTL)
            => LET old == CallCached.transporter
                   new == reqs'[r].transporter
               IN  /\ new # old
                   /\ new \notin 1..Len(transporters)
                   /\ new \in 1..Len(transporters')
                   /\ transporters[old].closeCalls = 0
                   /\ transporters'[old].closeCalls = 1
                   /\ transporterCache'[lastCall'.key] =
                          [transporter |-> new, created |-> now]
                   /\ LogIndex(lastCall'.log, "close", old) > 0
                   /\ LogIndex(lastCall'.log, "close", old)
                          < LogIndex(lastCall'.log, "set", new)]_vars
    /\ [](\A h \in 1..Len(transporters) : transporters[h].closeCalls <= 1)

\* A stale entry was replaced, and a later call for the same key was served.
C2_Witness ==
    /\ lastCall # NoCall
    /\ \E h \in 1..Len(transporters) :
          /\ transporters[h].key = lastCall.key
          /\ transporters[h].closeCalls = 1
          /\ lastCall.returned # h
          /\ lastCall.log = <<>>

\* C3: under every interleaving of the send requests, each key has at most
\* one handle that was never closed, that handle is the cached one, and
\* every handle that is no longer the cached one has had close() invoked.
C3_OneLiveHandlePerKey ==
    /\ \A k \in CacheKeys : Cardinality(LiveHandles(k)) <= 1
    /\ \A h \in 1..Len(transporters) :
          transporterCache[transporters[h].key].transporter # h
              => transporters[h].closeCalls >= 1

\* Two requests for one key are in flight at once, one of them holding a
\* handle that the other one's call superseded.
C3_Witness ==
    \E r1, r2 \in Reqs :
        /\ r1 # r2
        /\ reqs[r1].pc = "sendMail"
        /\ reqs[r2].pc = "sendMail"
        /\ reqs[r1].transporter # reqs[r2].transporter
        /\ transporters[reqs[r1].transporter].key
               = transporters[reqs[r2].transporter].key
        /\ transporters[reqs[r1].transporter].closeCalls = 1

(***************************************************************************)
(* Claims about the MIME helpers, checked under SpecMime and SpecDecode.   *)
(***************************************************************************)
\* Both extractions of the fetched message have run.
Extracted == phase = "done"

IsFlat(parts) == \A i \in 1..Len(parts) : parts[i].kind = "leaf"

\* The decoded content of a leaf part.
LeafContent(p) == decodePart(Text(p.text), Text(p.cte))

PartsOfType(parts, ctype) ==
    {i \in 1..Len(parts) : parts[i].kind = "leaf" /\ parts[i].ctype = ctype}

AllNonEmpty(parts, idx) == \A i \in idx : parts[i].text # ""

\* C4: a part whose own headers declare a boundary is resolved by applying
\* the body extraction to it as a multipart entity, so a message whose only
\* part is a nested multipart/alternative yields the nested HTML child's
\* content, and a body never contains the nested delimiter lines.
C4_NestedBodyResolved ==
    (Extracted /\ msg.top = "multipart")
    => /\ msg.parts = <<AltPart>> => bodyOut = Text("<p>in</p>")
       /\ ~includes(bodyOut, s_dashes \o s_innerBoundary)

RECURSIVE LeavesOf(_, _)
\* The leaf parts of parts[i..], nested ones included, in source order.
LeavesOf(parts, i) ==
    IF i > Len(parts) THEN <<>>
    ELSE (IF parts[i].kind = "nested" THEN LeavesOf(parts[i].children, 1)
          ELSE <<parts[i]>>)
         \o LeavesOf(parts, i + 1)

\* The attachment rule, read off a leaf part's descriptor.
IsAttachmentLeaf(p) ==
    /\ p.text # ""
    /\ \/ p.disp = "attachment"
       \/ p.fname /\ p.ctype \notin {"text/plain", "text/html"}
       \/ p.disp = "inline" /\ p.fname

\* C5: attachments inside a nested multipart part are returned together with
\* the direct ones: the result has one entry for every attachment leaf at
\* any depth.
C5_NestedAttachmentsCollected ==
    (Extracted /\ msg.top = "multipart")
    => Len(attsOut) = Len(SelectSeq(LeavesOf(msg.parts, 1), IsAttachmentLeaf))

\* C6: among the direct leaf parts the first HTML candidate is kept, and when
\* there is no HTML part the first plain candidate is kept; a later part of
\* the same kind does not replace it.
C6_FirstCandidateWins ==
    (/\ Extracted
     /\ msg.top = "multipart"
     /\ IsFlat(msg.parts)
     /\ \A i \in 1..Len(msg.parts) : msg.parts[i].text # "")
    => LET htmls == PartsOfType(msg.parts, "text/html")
           plains == PartsOfType(msg.parts, "text/plain")
       IN  /\ htmls # {}
               => bodyOut = LeafContent(msg.parts[CHOOSE i \in htmls :
                                                    \A j \in htmls : i <= j])
           /\ (htmls = {} /\ plains # {})
               => bodyOut = LeafContent(msg.parts[CHOOSE i \in plains :
                                                    \A j \in plains : i <= j])

\* C7: the body of a multipart message is the content of an HTML part when
\* it has one, whatever the order of the parts; otherwise the content of a
\* plain part; otherwise the empty string.  The message of a text/plain part
\* "hello" followed by a text/html part "<b>hi</b>" yields "<b>hi</b>".
C7_HtmlPreferredOverPlain ==
    (Extracted /\ msg.top = "multipart")
    => LET parts == msg.parts
           htmls == PartsOfType(parts, "text/html")
           plains == PartsOfType(parts, "text/plain")
       IN  /\ (htmls # {} /\ AllNonEmpty(parts, htmls))
               => \E i \in htmls : bodyOut = LeafContent(parts[i])
           /\ (IsFlat(parts) /\ htmls = {} /\ plains # {}
                   /\ AllNonEmpty(parts, plains))
               => \E i \in plains : bodyOut = LeafContent(parts[i])
           /\ (IsFlat(parts) /\ htmls = {} /\ plains = {})
               => bodyOut = <<>>
           /\ parts = <<PlainPart, HtmlPart>> => bodyOut = Text("<b>hi</b>")

\* The plain part came first and the HTML part after it, and the HTML
\* content was returned.
C7_Witness ==
    /\ Extracted
    /\ msg = [top |-> "multipart", parts |-> <<PlainPart, HtmlPart>>]
    /\ bodyOut = Text("<b>hi</b>")

\* C8: a message whose top header declares no boundary is handled as a
\* single entity, whatever its body contains: the body is the trimmed
\* content after the header block and there are no attachments.
C8_BoundaryFromHeaderOnly ==
    (Extracted /\ msg.top = "single")
    => /\ bodyOut = singlePartBody(raw)
       /\ attsOut = <<>>

\* The characters of well-formed base64 text.
IsBase64Text(s) ==
    /\ Len(s) % 4 = 0
    /\ \A i \in 1..Len(s) :
          \/ \E k \in 1..Len(Base64Alphabet) : Base64Alphabet[k] = s[i]
          \/ s[i] = "=" /\ i > Len(s) - 2 /\ (i < Len(s) => s[i + 1] = "=")
    /\ Len(s) > 0 => s[Len(s) - 3] # "="

\* C9: decodePart with encoding base64 returns the content unchanged when
\* the content cannot be decoded as base64.
C9_UndecodableBase64Unchanged ==
    (/\ retDecoded # NotRun
     /\ trim(toLowerCase(argEncoding)) = s_base64
     /\ ~IsBase64Text(stripWhiteSpace(argContent)))
    => retDecoded = argContent

\* C10: a direct leaf part with a payload is returned as an attachment
\* exactly when its disposition is attachment, or it has a filename and its
\* type is neither text/plain nor text/html, or its disposition is inline
\* and it has a filename.
C10_AttachmentRule ==
    (Extracted /\ msg.top = "multipart" /\ IsFlat(msg.parts))
    => Len(attsOut) = Len(SelectSeq(msg.parts, IsAttachmentLeaf))

\* An inline text/html part with a filename was returned as the only
\* attachment of its message.
C10_Witness ==
    /\ Extracted
    /\ msg = [top |-> "multipart",
              parts |-> <<Leaf("text/html", "inline", TRUE, "", "hi")>>]
    /\ Len(attsOut) = 1

\* The attachment leaves of a flat message, in source order.
AttachmentLeaves == SelectSeq(msg.parts, IsAttachmentLeaf)

\* The content of a part as single-byte text.
BytesOf(text) == [j \in 1..Len(text) |-> charCode(text[j]) % 256]

\* C11: the payload of an attachment part declared base64, in any letter
\* case, is the part's own base64 text with the whitespace removed, neither
\* padded nor otherwise re-encoded; under any other or no encoding it is
\* the padded base64 text that decodes to the bytes of the raw content.
C11_PayloadPreserved ==
    (Extracted /\ msg.top = "multipart" /\ IsFlat(msg.parts))
    => /\ Len(attsOut) = Len(AttachmentLeaves)
       /\ \A i \in 1..Len(attsOut) :
             LET p == AttachmentLeaves[i]
                 payload == attsOut[i].base64
             IN  /\ toLowerCase(Text(p.cte)) = s_base64
                     => payload = stripWhiteSpace(Text(p.text))
                 /\ toLowerCase(Text(p.cte)) # s_base64
                     => /\ bufferFromBase64(payload) = BytesOf(Text(p.text))
                        /\ Len(payload) = 4 * ((Len(Text(p.text)) + 2) \div 3)
                 /\ p.text = "aGVs<CRLF>bG8=" => payload = Text("aGVsbG8=")
                 /\ p.text = "aGk" => payload = Text("aGk")
                 /\ p.text = "hi" => payload = <<"a", "G", "k", "=">>

\* A part declared BASE64 whose text is broken over two lines was returned
\* with the line break removed, after a part that was returned as it was.
C11_Witness ==
    /\ Extracted
    /\ Len(msg.parts) = 2
    /\ msg.parts[2].cte = "BASE64"
    /\ msg.parts[2].text = "aGVs<CRLF>bG8="
    /\ Len(attsOut) = 2
    /\ attsOut[2].base64 = Text("aGVsbG8=")

\* size is the least integer not below three quarters of the payload length.
IsCeilOfThreeQuarters(size, payload) ==
    /\ 4 * size >= 3 * Len(payload)
    /\ 4 * (size - 1) < 3 * Len(payload)

\* By how much the declared size exceeds the number of bytes the payload
\* decodes to.
SizeExcess(att) == att.size - Len(bufferFromBase64(att.base64))

\* C12 as stated: every returned attachment has size = ceil(L * 3 / 4) for
\* the length L of its payload, the payload aGVsbG8= has size 6, and the size
\* exceeds the decoded byte length by at most 2.
C12_SizeWithinTwoOfDecoded ==
    Extracted
    => \A i \in 1..Len(attsOut) :
          /\ IsCeilOfThreeQuarters(attsOut[i].size, attsOut[i].base64)
          /\ attsOut[i].base64 = Text("aGVsbG8=") => attsOut[i].size = 6
          /\ SizeExcess(attsOut[i]) \in 0..2

\* C12 amended: every returned attachment has size = ceil(L * 3 / 4) for the
\* length L of its payload, the payload aGVsbG8= has size 6, and the size
\* exceeds the decoded byte length by at most 2 when the payload is
\* well-formed padded base64 text.
C12_SizeFromPayloadLength ==
    Extracted
    => \A i \in 1..Len(attsOut) :
          /\ IsCeilOfThreeQuarters(attsOut[i].size, attsOut[i].base64)
          /\ attsOut[i].base64 = Text("aGVsbG8=") => attsOut[i].size = 6
          /\ IsBase64Text(attsOut[i].base64) => SizeExcess(attsOut[i]) \in 0..2

\* The attachment aGVsbG8= was returned with size 6, and an attachment whose
\* payload length is not a multiple of four was returned too.
C12_Witness ==
    /\ Extracted
    /\ Len(attsOut) = 2
    /\ attsOut[1].base64 = Text("aGVsbG8=")
    /\ attsOut[1].size = 6
    /\ Len(attsOut[2].base64) % 4 = 3
    /\ attsOut[2].size = 3

\* C13: for a source that declares no boundary the body is the content
\* after the first CRLF CRLF, decoded by the header's transfer encoding and
\* then trimmed, or the empty string when there is no CRLF CRLF, and there
\* are no attachments; Content-Type: text/plain CRLF CRLF hello world gives
\* the body hello world.
C13_SingleEntityBody ==
    (Extracted /\ msg.top \in {"entity", "headers", "single"})
    => LET p == msg.parts[1]
       IN  /\ msg.top = "single"
               => bodyOut = trim(substringFrom(raw, indexOf(raw, s_CRLFCRLF) + 4))
           /\ msg.top = "entity"
               => bodyOut = trim(decodePart(Text(p.text), Text(p.cte)))
           /\ msg.top = "headers" => bodyOut = <<>>
           /\ attsOut = <<>>
           /\ (msg.top = "entity" /\ p.cte \in {"", "7bit"})
               => /\ p.text \in {"hello world", "<SP>hello world<CRLF>"}
                      => bodyOut = Text("hello world")
                  /\ p.text = "hi<CRLF><CRLF>more"
                      => bodyOut = Text("hi<CRLF><CRLF>more")
           /\ (msg.top = "entity" /\ p.cte \in {"base64", "BASE64"}
                 /\ p.text = "aGVsbG8=")
               => bodyOut = Text("hello")
           /\ (msg.top = "entity" /\ p.cte = "quoted-printable"
                 /\ p.text = "a=20")
               => bodyOut = <<"a">>

IsWellFormed(p) == p.kind # "raw"

HasSkippedSegment == \E i \in 1..Len(msg.parts) : msg.parts[i].kind = "raw"

\* The message without its malformed segments.
WellFormedOnly == [msg EXCEPT !.parts = SelectSeq(msg.parts, IsWellFormed)]

\* C14: a segment that is empty, blank or without a blank line is skipped
\* and the walk goes on: the body and the attachments are those of the
\* message without that segment, every attachment part before and after it
\* is returned, in source order, and a text part after it still supplies
\* the body.
C14_SkippedSegmentsDoNotAbort ==
    (Extracted /\ msg.top = "multipart" /\ HasSkippedSegment)
    => LET good == WellFormedOnly.parts
           atts == SelectSeq(good, IsAttachmentLeaf)
           htmls == PartsOfType(good, "text/html")
           plains == PartsOfType(good, "text/plain")
       IN  /\ bodyOut = extractBodyFromSource(Render(WellFormedOnly))
           /\ attsOut = extractAttachmentsFromSource(Render(WellFormedOnly))
           /\ Len(attsOut) = Len(atts)
           /\ \A i \in 1..Len(attsOut) :
                 bufferFromBase64(attsOut[i].base64)
                     = BytesOf(LeafContent(atts[i]))
           /\ htmls # {} => \E i \in htmls : bodyOut = LeafContent(good[i])
           /\ (htmls = {} /\ plains # {})
               => \E i \in plains : bodyOut = LeafContent(good[i])

\* A segment without a blank line stood between a plain part and an HTML
\* part, and the HTML part after it supplied the body.
C14_Witness ==
    /\ Extracted
    /\ msg = [top |-> "multipart",
              parts |-> <<PlainPart, NoBlankLineSegment, HtmlPart>>]
    /\ bodyOut = Text("<b>hi</b>")

(***************************************************************************)
(* Claims about the list and get actions, checked under SpecFetch.         *)
(***************************************************************************)
\* What a message of INBOX has for body and for snippet when its extraction
\* does not raise.
BodyOfSource(name) ==
    IF name = "example" THEN Text("<b>hi</b>")
    ELSE IF name = "hello" THEN Text("hello world")
    ELSE <<>>

SnippetOfSource(name) ==
    IF name = "example" THEN Text("hi")
    ELSE IF name = "hello" THEN Text("hello world")
    ELSE <<>>

\* C15: extraction is guarded per message.  A list request is answered once,
\* with status 200, and every returned message has its own snippet, the
\* empty one when its extraction raised; a get request for a message is
\* answered once, with status 200, with the message's body, the empty body
\* and no attachments when its extraction raised.
C15_ExtractionGuardedPerMessage ==
    (fetchPc = "done" /\ imap.logouts > 0)
    => /\ Len(responses) = 1
       /\ responses[1].status = 200
       /\ fetchReq.action = "list"
           => /\ Len(responses[1].messages)
                    = Min({Len(inbox), maxResultsOf(fetchReq)})
              /\ \A k \in 1..Len(responses[1].messages) :
                    LET m == responses[1].messages[k]
                    IN  m.snippet = IF inbox[m.id].raises THEN <<>>
                                    ELSE SnippetOfSource(inbox[m.id].source)
       /\ fetchReq.action = "get"
           => LET m == inbox[fetchReq.messageId]
              IN  /\ responses[1].body = IF m.raises THEN <<>>
                                         ELSE BodyOfSource(m.source)
                  /\ m.raises => responses[1].attachments = <<>>

(***************************************************************************)
(* Further claims about the transporter cache, checked under Spec.         *)
(***************************************************************************)
\* The request r makes its getTransporter call in this step.
IsGetTransporterStep(r) == reqs[r].pc = "idle" /\ reqs'[r].pc # "idle"

\* C16: when close() raises on the stale handle, the call still removes the
\* stale entry, constructs a new handle, installs it under the key with the
\* current timestamp and returns it, and the caller goes on to sendMail.
C16_CloseFailureSwallowed ==
    [][\A r \in Reqs :
          (IsGetTransporterStep(r) /\ lastCall'.closeThrew)
          => LET old == CallCached.transporter
                 new == reqs'[r].transporter
             IN  /\ reqs'[r].pc = "sendMail"
                 /\ new = Len(transporters) + 1
                 /\ Len(transporters') = Len(transporters) + 1
                 /\ transporters'[new].closeCalls = 0
                 /\ new # old
                 /\ LogIndex(lastCall'.log, "delete", old) > 0
                 /\ transporterCache'[lastCall'.key]
                        = [transporter |-> new, created |-> now]]_vars

\* close() raised on a stale handle and the call returned the handle that
\* is now cached under the key.
C16_Witness ==
    /\ lastCall.closeThrew
    /\ lastCall.before # NoEntry
    /\ lastCall.returned # lastCall.before.transporter
    /\ transporterCache[lastCall.key].transporter = lastCall.returned
    /\ transporterCache[lastCall.key].created = lastCall.at

\* C17: a getTransporter call changes the cache entry of its own key only:
\* the entry of every other key and the handles created for it stay as they
\* were, also when that entry is past the TTL; and no step other than a
\* getTransporter call changes the cache or closes a handle.
C17_OtherKeysUntouched ==
    [][/\ \A r \in Reqs :
            IsGetTransporterStep(r)
            => \A k \in CacheKeys \ {lastCall'.key} :
                  /\ transporterCache'[k] = transporterCache[k]
                  /\ \A h \in 1..Len(transporters) :
                        transporters[h].key = k
                            => transporters'[h] = transporters[h]
       /\ (\A r \in Reqs : ~IsGetTransporterStep(r))
            => /\ transporterCache' = transporterCache
               /\ transporters' = transporters]_vars

\* A call for one key has just replaced that key's entry while the entry of
\* another key, past the TTL, is still cached with its handle open.
C17_Witness ==
    /\ lastCall # NoCall
    /\ lastCall.at = now
    /\ lastCall.log # <<>>
    /\ \E k \in CacheKeys \ {lastCall.key} :
          /\ transporterCache[k] # NoEntry
          /\ now - transporterCache[k].created >= TRANSPORTER_TTL
          /\ transporters[transporterCache[k].transporter].closeCalls = 0

(***************************************************************************)
(* Further claims about decodePart, checked under SpecDecode.              *)
(***************************************************************************)
IsQuotedPrintable(enc) == trim(toLowerCase(enc)) = s_quotedPrintable

RECURSIVE WithoutSoftBreaks(_, _)
\* s read from position i with every "=" CRLF and "=" LF left out.
WithoutSoftBreaks(s, i) ==
    IF i > Len(s) THEN <<>>
    ELSE IF SubSeq(s, i, Min({i + 2, Len(s)})) = <<"=", "\r", "\n">>
    THEN WithoutSoftBreaks(s, i + 3)
    ELSE IF SubSeq(s, i, Min({i + 1, Len(s)})) = <<"=", "\n">>
    THEN WithoutSoftBreaks(s, i + 2)
    ELSE <<s[i]>> \o WithoutSoftBreaks(s, i + 1)

RECURSIVE WithEscapesReplaced(_, _)
\* s read from position i in one pass: "=" and two hexadecimal digits give
\* the character of that code and the pass goes on after them.
WithEscapesReplaced(s, i) ==
    IF i > Len(s) THEN <<>>
    ELSE IF /\ s[i] = "="
            /\ i + 2 <= Len(s)
            /\ IsHexDigit(s[i + 1])
            /\ IsHexDigit(s[i + 2])
    THEN <<fromCharCode(16 * hexValue(s[i + 1]) + hexValue(s[i + 2]))>>
         \o WithEscapesReplaced(s, i + 3)
    ELSE <<s[i]>> \o WithEscapesReplaced(s, i + 1)

\* C18: under quoted-printable, in any letter case, decodePart removes the
\* soft line breaks and then replaces the escapes in one pass from left to
\* right that does not read again what it has produced: =3D41 gives =41,
\* an escape that a soft line break interrupts is decoded, text without "="
\* is returned as it is, and abc= CRLF def gives abcdef.
C18_QuotedPrintableTwoPasses ==
    (retDecoded # NotRun /\ IsQuotedPrintable(argEncoding))
    => /\ retDecoded = WithEscapesReplaced(WithoutSoftBreaks(argContent, 1), 1)
       /\ argContent = <<"=", "3", "D", "4", "1">>
             => retDecoded = <<"=", "4", "1">>
       /\ argContent = <<"=", "4", "=", "\r", "\n", "1">>
             => retDecoded = <<"A">>
       /\ argContent = s_softBreakExample
             => retDecoded = <<"a", "b", "c", "d", "e", "f">>
       /\ (\A i \in 1..Len(argContent) : argContent[i] # "=")
             => retDecoded = argContent

\* The content =3D41 was decoded under Quoted-Printable and gave =41.
C18_Witness ==
    /\ argEncoding = s_QuotedPrintable
    /\ argContent = <<"=", "3", "D", "4", "1">>
    /\ retDecoded = <<"=", "4", "1">>

\* The strings of the model: sequences of characters of the table, of the
\* character that stands for the codes above U+00FF and of the replacement
\* character.
IsString(s) ==
    /\ DOMAIN s = 1..Len(s)
    /\ \A i \in 1..Len(s) :
          \/ s[i] \in {HighChar, ReplacementChar}
          \/ \E n \in 1..Len(CharTable) : CharTable[n] = s[i]

IsRecognised(enc) ==
    trim(toLowerCase(enc)) \in {s_base64, s_quotedPrintable}

\* C19: decodePart returns a string for every content and every encoding
\* and changes nothing else; under an absent or unrecognised encoding the
\* result is the content; and the result under BASE64 is the result under
\* base64.
C19_DecodePartTotal ==
    /\ retDecoded # NotRun
        => /\ IsString(retDecoded)
           /\ ~IsRecognised(argEncoding) => retDecoded = argContent
           /\ argEncoding = s_BASE64
                 => retDecoded = decodePart(argContent, s_base64)
           /\ (argEncoding = s_BASE64 /\ argContent = <<"Q", "U", "U", "=">>)
                 => retDecoded = <<"A", "E">>
    /\ transporters = <<>>
    /\ lastCall = NoCall
    /\ phase = "none"
    /\ fetchPc = "idle"

\* A content was decoded under BASE64 into a string other than itself.
C19_Witness ==
    /\ argEncoding = s_BASE64
    /\ argContent = <<"Q", "U", "U", "=">>
    /\ retDecoded = <<"A", "E">>

(***************************************************************************)
(* Claims about the recursion of the two helpers (checked under SpecWalk). *)
(***************************************************************************)

\* The step is a call the helper makes to itself.
IsRecursiveCall == stack # <<>> /\ Len(stack') = Len(stack) + 1

InFlightAcross(r) == reqs[r].pc = "sendMail" /\ reqs'[r].pc = "sendMail"

\* C21: a handle getTransporter returned to a send request is never closed
\* while that request's sendMail on it is in flight: no step invokes close()
\* on the handle of a request that awaits sendMail before and after it.
C21_InFlightHandleNotClosed ==
    [][\A r \in Reqs :
          InFlightAcross(r) =>
              transporters'[reqs[r].transporter].closeCalls
                  = transporters[reqs[r].transporter].closeCalls]_vars

\* The call of this step carries another password than the one the cached
\* handle was configured with, and the entry is younger than the TTL.
IsOtherPasswordCall(r) ==
    /\ IsCallStep(r)
    /\ CallCached # NoEntry
    /\ now - CallCached.created < TRANSPORTER_TTL
    /\ transporters[CallCached.transporter].pass # lastCall'.pass

\* C25: the cache lookup ignores the password: a getTransporter call within
\* the TTL for a key whose handle was configured with another password
\* returns that handle, still configured with the first password, and
\* creates no handle.
C25_PasswordIgnoredByLookup ==
    [][\A r \in Reqs :
          IsOtherPasswordCall(r)
          => /\ reqs'[r].transporter = CallCached.transporter
             /\ transporters'[reqs'[r].transporter].pass
                    = transporters[CallCached.transporter].pass
             /\ transporters'[reqs'[r].transporter].pass # lastCall'.pass
             /\ Len(transporters') = Len(transporters)
             /\ transporterCache' = transporterCache]_vars

\* A call carrying p2 was served the handle that was configured with p1.
C25_Witness ==
    /\ lastCall # NoCall
    /\ lastCall.before # NoEntry
    /\ lastCall.returned = lastCall.before.transporter
    /\ lastCall.pass = "p2"
    /\ transporters[lastCall.returned].pass = "p1"

(***************************************************************************)
(* Claims about the middleware and the handler (checked under SpecApi).    *)
(***************************************************************************)

\* The positions in the log of the calls of op.
CallsOf(op) == {i \in 1..Len(apiLog) : apiLog[i].op = op}

\* The call of op was made and returned.
Succeeded(op) == \E i \in CallsOf(op) : apiLog[i].ok

\* The handler has run to its end, its finally blocks and catch included.
Served == apiPc = "done"

\* C22: every request produces exactly one response on every path: the
\* response is never called a second time, not even by the handler's catch
\* when lock.release() or client.logout() fails after the success response,
\* and a request that has been served has had its one response.
C22_ExactlyOneResponse ==
    /\ Cardinality(CallsOf("respond")) <= 1
    /\ Served => Cardinality(CallsOf("respond")) = 1

\* C23: for every IMAP action, once client.connect() has succeeded,
\* client.logout() is called exactly once on every path, and whenever the
\* INBOX lock was acquired it is released exactly once, before the logout.
C23_LogoutAndReleaseOnce ==
    /\ Cardinality(CallsOf("logout")) <= 1
    /\ Cardinality(CallsOf("release")) <= 1
    /\ (Succeeded("connect") /\ apiPc \in {"catch", "done"})
           => Cardinality(CallsOf("logout")) = 1
    /\ (Succeeded("getMailboxLock") /\ apiPc \in {"catch", "done"})
           => /\ Cardinality(CallsOf("release")) = 1
              /\ \A i \in CallsOf("release"), j \in CallsOf("logout") : i < j

\* A request was served whose getMailboxLock failed after a connect that
\* succeeded, and logout was called.
C23_Witness ==
    /\ Served
    /\ Succeeded("connect")
    /\ CallsOf("getMailboxLock") # {}
    /\ ~Succeeded("getMailboxLock")
    /\ CallsOf("logout") # {}

\* The secret is configured and the request's header is missing or differs.
IsRejected ==
    /\ apiReq.route = "api"
    /\ proxySecret # ""
    /\ apiReq.secret # proxySecret

Answered(status) == apiLog = <<[op |-> "respond", ok |-> TRUE, status |-> status]>>

\* C24: with PROXY_SECRET configured, a request under /api whose
\* x-proxy-secret header is missing or differs is answered 401 and reaches no
\* action handler: nothing but the 401 response is ever called for it.  GET
\* /health is answered 200 whatever the header.  With PROXY_SECRET not
\* configured no /api request is answered 401 and each reaches the handler.
C24_SecretGuardsApi ==
    /\ IsRejected => /\ apiPc \in {"start", "done"}
                     /\ apiLog = <<>> \/ Answered(401)
                     /\ Served => Answered(401)
    /\ apiReq.route = "health" => /\ apiPc \in {"start", "done"}
                                  /\ Served => Answered(200)
    /\ (apiReq.route = "api" /\ proxySecret = "")
           => /\ \A i \in CallsOf("respond") : apiLog[i].status # 401
              /\ Served => apiLog # <<>>

\* A send request with credentials, recipient and subject was turned away.
C24_Witness ==
    /\ IsRejected
    /\ Served
    /\ apiReq.action = "send"
    /\ apiReq.creds
    /\ apiReq.toSubject
    /\ Answered(401)

(***************************************************************************)
(* Claims about the two walks together (checked under SpecMime).           *)
(***************************************************************************)

\* The leaves of a flat message that may supply the body when the walks
\* select disjoint leaves: those the attachment walk does not return.
BodyLeaves(parts) ==
    {i \in 1..Len(parts) : parts[i].text # "" /\ ~IsAttachmentLeaf(parts[i])}

\* C26: the body walk and the attachment walk select disjoint leaves: the
\* body of a message of leaf parts is empty or the content of a leaf that
\* is not returned as an attachment, and a message whose only part is
\* returned as an attachment has no body.
C26_BodyAndAttachmentsDisjoint ==
    (Extracted /\ msg.top = "multipart" /\ IsFlat(msg.parts))
    => /\ bodyOut = <<>>
          \/ \E i \in BodyLeaves(msg.parts) : bodyOut = LeafContent(msg.parts[i])
       /\ (Len(msg.parts) = 1 /\ Len(attsOut) = 1) => bodyOut = <<>>

(***************************************************************************)
(* Claims about the list action (checked under SpecFetch).                 *)
(***************************************************************************)

\* A list request has been answered.
Listed == fetchPc = "done" /\ fetchReq.action = "list"

\* The messages of the answer.
Returned == responses[1].messages

====
